---------------------------- MODULE Spec2Model ----------------------------
(***************************************************************************)
(* A model of the SOLID aggregation service: the scheduler command-output  *)
(* parser (internal/pkg/client/slurmctl) and the association-graph         *)
(* resolver (internal/pkg/client/slurmdb) with the handler that calls it.  *)
(*                                                                         *)
(* Text is a sequence of symbols.  A symbol is one character ("\n", " ",   *)
(* "|", a digit, a sign) or an opaque fragment of a word that contains     *)
(* none of those ("n1", "idle").  Go ints are written as their canonical   *)
(* decimal text (a sequence of digit symbols, "-" first when negative), so *)
(* that the 64-bit range is kept exactly.                                  *)
(***************************************************************************)
EXTENDS Integers, Sequences, FiniteSets, TLC

VARIABLES
    op,         \* slurmctl: the client method being called
    out,        \* slurmctl: the bytes cmd.CombinedOutput() returned
    cmdErr,     \* slurmctl: whether cmd.CombinedOutput() returned an error
    pc,         \* slurmctl: position of the call
    lines,      \* slurmctl: lines the scanner has not delivered yet
    consumed,   \* slurmctl: lines the scanner delivered, in order
    nodes,      \* slurmctl: GetNodes' map from node name to *Node
    jobs,       \* slurmctl: GetJobs' slice (GetJob: its single job)
    steps,      \* slurmctl: GetStepsOfJob's slice
    warns,      \* slurmctl: lines logged with logger.Warn
    parts,      \* slurmctl: parsePartitions' slice of finished blocks
    current,    \* slurmctl: the partition parsers' block in progress
    ctlErr,     \* slurmctl: the error the client method returned
    client,     \* slurmdb: the package-level default *Client
    assoc,      \* slurmdb: rows of <cluster>_assoc_table in id_assoc order
    req,        \* slurmdb: the call or request being answered
    resp,       \* slurmdb: what it returned
    acctTable,  \* slurmdb: rows of acct_table
    userTable,  \* slurmdb: rows of user_table
    queries,    \* slurmdb: the queries the call sent to the store, in order
    asm,        \* slurmdb: the locals of a tree assembly between its queries
    seen,       \* slurmdb: the states the edge relation had during that call
    ldap        \* ldap: the default *Client and the entries under ou=Groups

vars == <<op, out, cmdErr, pc, lines, consumed, nodes, jobs, steps, warns,
          parts, current, ctlErr,
          client, assoc, req, resp, acctTable, userTable, queries,
          asm, seen, ldap>>

ctlVars == <<op, out, cmdErr, pc, lines, consumed, nodes, jobs, steps, warns,
             parts, current, ctlErr>>
auxVars == <<asm, seen, ldap>>
dbVars == <<client, assoc, req, resp, acctTable, userTable, queries,
            asm, seen, ldap>>
partVars == <<parts, current>>
listVars == <<nodes, jobs, steps>>

(***************************************************************************)
(* Bounds.                                                                 *)
(***************************************************************************)
MaxLines == 3
MaxRows == 2

(***************************************************************************)
(* Sequence helpers.                                                       *)
(***************************************************************************)
Range(s) == {s[i] : i \in 1..Len(s)}

RECURSIVE Concat(_)
Concat(ss) == IF ss = <<>> THEN <<>> ELSE Head(ss) \o Concat(Tail(ss))

SeqsUpTo(S, n) == UNION {[1..k -> S] : k \in 0..n}

(***************************************************************************)
(* unicode.IsSpace on the symbols of the model.                            *)
(***************************************************************************)
IsSpace(c) == c \in {" ", "\t", "\n", "\r"}

(***************************************************************************)
(* bufio.ScanLines: a line ends at "\n"; one trailing "\r" is dropped; a   *)
(* final line without "\n" is delivered when it is not empty.              *)
(***************************************************************************)
dropCR(data) ==
    IF Len(data) > 0 /\ data[Len(data)] = "\r"
    THEN SubSeq(data, 1, Len(data) - 1)
    ELSE data

IndexOf(s, c) ==
    IF \E i \in 1..Len(s) : s[i] = c
    THEN CHOOSE i \in 1..Len(s) : s[i] = c /\ \A j \in 1..(i-1) : s[j] # c
    ELSE 0

RECURSIVE ScanLines(_)
ScanLines(data) ==
    IF data = <<>> THEN <<>>
    ELSE LET i == IndexOf(data, "\n") IN
         IF i = 0 THEN <<dropCR(data)>>
         ELSE <<dropCR(SubSeq(data, 1, i - 1))>>
              \o ScanLines(SubSeq(data, i + 1, Len(data)))

(***************************************************************************)
(* strings.Fields: the maximal runs of non-space symbols.                  *)
(***************************************************************************)
RECURSIVE FieldsFrom(_, _, _)
FieldsFrom(s, cur, acc) ==
    IF s = <<>> THEN (IF cur = <<>> THEN acc ELSE Append(acc, cur))
    ELSE IF IsSpace(Head(s))
         THEN FieldsFrom(Tail(s), <<>>,
                         IF cur = <<>> THEN acc ELSE Append(acc, cur))
         ELSE FieldsFrom(Tail(s), Append(cur, Head(s)), acc)

Fields(s) == FieldsFrom(s, <<>>, <<>>)

(***************************************************************************)
(* strings.Split(s, sep) for a one-symbol separator: empty fields are      *)
(* kept, and the result always has at least one element.                   *)
(***************************************************************************)
RECURSIVE Split(_, _)
Split(s, sep) ==
    LET i == IndexOf(s, sep) IN
    IF i = 0 THEN <<s>>
    ELSE <<SubSeq(s, 1, i - 1)>> \o Split(SubSeq(s, i + 1, Len(s)), sep)

(***************************************************************************)
(* strings.TrimSpace.                                                      *)
(***************************************************************************)
RECURSIVE TrimLeft(_)
TrimLeft(s) ==
    IF s # <<>> /\ IsSpace(Head(s)) THEN TrimLeft(Tail(s)) ELSE s

RECURSIVE TrimRight(_)
TrimRight(s) ==
    IF s # <<>> /\ IsSpace(s[Len(s)])
    THEN TrimRight(SubSeq(s, 1, Len(s) - 1))
    ELSE s

TrimSpace(s) == TrimRight(TrimLeft(s))


(***************************************************************************)
(* Decimal text of integers.  Dec compares and normalises digit sequences  *)
(* so that values beyond the checker's own integers stay exact.            *)
(***************************************************************************)
Digits == <<"0", "1", "2", "3", "4", "5", "6", "7", "8", "9">>

IsDigit(c) == c \in Range(Digits)

LowerLetters == <<"a", "b", "c", "d", "e", "f", "g", "h", "i", "j", "k", "l",
                  "m", "n", "o", "p", "q", "r", "s", "t", "u", "v", "w", "x", "y", "z">>
UpperLetters == <<"A", "B", "C", "D", "E", "F", "G", "H", "I", "J", "K", "L",
                  "M", "N", "O", "P", "Q", "R", "S", "T", "U", "V", "W", "X", "Y", "Z">>

\* strings.ToUpper
ToUpper(s) ==
    [i \in 1..Len(s) |->
        IF \E k \in 1..Len(LowerLetters) : LowerLetters[k] = s[i]
        THEN UpperLetters[CHOOSE k \in 1..Len(LowerLetters) : LowerLetters[k] = s[i]]
        ELSE s[i]]

\* strings.ToLower
ToLower(s) ==
    [i \in 1..Len(s) |->
        IF \E k \in 1..Len(UpperLetters) : UpperLetters[k] = s[i]
        THEN LowerLetters[CHOOSE k \in 1..Len(UpperLetters) : UpperLetters[k] = s[i]]
        ELSE s[i]]

DigitVal(c) == (CHOOSE i \in 1..10 : Digits[i] = c) - 1

RECURSIVE StripZeros(_)
StripZeros(ds) ==
    IF Len(ds) > 1 /\ Head(ds) = "0" THEN StripZeros(Tail(ds)) ELSE ds

RECURSIVE LexGT(_, _)
LexGT(a, b) ==
    IF a = <<>> \/ b = <<>> THEN FALSE
    ELSE IF DigitVal(Head(a)) # DigitVal(Head(b))
         THEN DigitVal(Head(a)) > DigitVal(Head(b))
         ELSE LexGT(Tail(a), Tail(b))

\* a > b for two non-empty digit sequences read as decimal numbers
DecGT(a, b) ==
    LET x == StripZeros(a)
        y == StripZeros(b)
    IN IF Len(x) # Len(y) THEN Len(x) > Len(y) ELSE LexGT(x, y)

MaxUint64Dec == <<"1","8","4","4","6","7","4","4","0","7","3","7","0","9",
                  "5","5","1","6","1","5">>
MaxInt64Dec == <<"9","2","2","3","3","7","2","0","3","6","8","5","4","7",
                 "7","5","8","0","7">>
\* magnitude of the smallest int64
MinInt64Mag == <<"9","2","2","3","3","7","2","0","3","6","8","5","4","7",
                 "7","5","8","0","8">>

ZeroDec == <<"0">>

(***************************************************************************)
(* strconv.ParseUint(s, 10, 64), walking the bytes left to right: a byte   *)
(* that is no digit is a syntax error; a digit that takes the value past   *)
(* the largest uint64 is a range error, met before any later byte is read. *)
(* Result: "syntax", "range", or "ok" (the value is then the text itself). *)
(***************************************************************************)
RECURSIVE ParseUintFrom(_, _)
ParseUintFrom(s, j) ==
    IF j > Len(s) THEN "ok"
    ELSE IF ~IsDigit(s[j]) THEN "syntax"
    ELSE IF DecGT(SubSeq(s, 1, j), MaxUint64Dec) THEN "range"
    ELSE ParseUintFrom(s, j + 1)

ParseUint(s) == IF s = <<>> THEN "syntax" ELSE ParseUintFrom(s, 1)

(***************************************************************************)
(* The int strconv.Atoi returns (its error is discarded by GetNodes): 0 on *)
(* a syntax error, the nearest bound of int64 on a range error.            *)
(***************************************************************************)
Atoi(s) ==
    IF s = <<>> THEN ZeroDec
    ELSE LET neg == Head(s) = "-"
             body == IF Head(s) \in {"+", "-"} THEN Tail(s) ELSE s
             r == ParseUint(body)
             MinDec == <<"-">> \o MinInt64Mag
         IN  IF r = "syntax" THEN ZeroDec
             ELSE IF r = "range" THEN (IF neg THEN MinDec ELSE MaxInt64Dec)
             ELSE IF ~neg /\ DecGT(body, MaxInt64Dec) THEN MaxInt64Dec
             ELSE IF neg /\ DecGT(body, MinInt64Mag) THEN MinDec
             ELSE IF StripZeros(body) = ZeroDec THEN ZeroDec
             ELSE IF neg THEN <<"-">> \o StripZeros(body)
             ELSE StripZeros(body)

\* whether strconv.Atoi returns a nil error
AtoiOk(s) ==
    /\ s # <<>>
    /\ LET neg == Head(s) = "-"
           body == IF Head(s) \in {"+", "-"} THEN Tail(s) ELSE s
       IN  /\ ParseUint(body) = "ok"
           /\ IF neg THEN ~DecGT(body, MinInt64Mag)
                     ELSE ~DecGT(body, MaxInt64Dec)

(***************************************************************************)
(* GetNodes: sinfo -h -N -o "%N %P %t %m %c %X %Y %Z %G".                  *)
(***************************************************************************)
\* the field count below which GetNodes skips a line
MinNodeFields == 7

\* the number of fields the format string asks sinfo for
NodeFormatFields == 9

\* the Node literal built on the first sighting of a name (Go's fields[i] is
\* fields[i+1] here); Partition starts empty
NewNode(fields) ==
    [Name      |-> fields[1],
     Partition |-> <<>>,
     State     |-> fields[3],
     Memory    |-> Atoi(fields[4]),
     CPUs      |-> Atoi(fields[5]),
     Socket    |-> Atoi(fields[6]),
     Cores     |-> Atoi(fields[7]),
     Threads   |-> Atoi(fields[8]),
     GPU       |-> fields[9]]

\* node.Partition = append(node.Partition, fields[1])
AppendPartitionStateToo(node, fields) ==
    [node EXCEPT !.Partition = Append(@, fields[2]), !.State = fields[3]]

AppendPartitionReplacing(node, fields) ==
    [node EXCEPT !.Partition = <<fields[2]>>]

AppendPartition(node, fields) ==
    [node EXCEPT !.Partition = Append(@, fields[2])]

PutNode(m, name, node) ==
    [n \in DOMAIN m \cup {name} |-> IF n = name THEN node ELSE m[n]]

(***************************************************************************)
(* One pass of GetNodes' loop body over a line, on the map m.  The result  *)
(* is "skip" (the warning branch), "panic" (an index past the end of       *)
(* fields: fields[7] needs 8 fields, and fields[8], read only when the     *)
(* name is new, needs 9) or "ok" with the new map.                         *)
(***************************************************************************)
NodesLineStep(m, line) ==
    LET fields == Fields(line) IN
    IF Len(fields) < MinNodeFields
    THEN [kind |-> "skip", nodes |-> m]
    ELSE IF Len(fields) < 8
    THEN [kind |-> "panic", nodes |-> m]
    ELSE IF fields[1] \in DOMAIN m
    THEN [kind |-> "ok",
          nodes |-> PutNode(m, fields[1], AppendPartition(m[fields[1]], fields))]
    ELSE IF Len(fields) < 9
    THEN [kind |-> "panic", nodes |-> m]
    ELSE [kind |-> "ok",
          nodes |-> PutNode(m, fields[1],
                            AppendPartition(NewNode(fields), fields))]

(***************************************************************************)
(* GetJobs / GetJob: squeue -h -o "%i|%t|%u|%a|%C|%N|%P|%q|%r";            *)
(* GetStepsOfJob: squeue -s -h -O "stepid,stepname,stepstate".             *)
(***************************************************************************)
JobFields == 9
StepFields == 3

NewJob(fields) ==
    [Jobid     |-> fields[1],
     State     |-> fields[2],
     User      |-> fields[3],
     Account   |-> fields[4],
     CPUs      |-> fields[5],
     Nodelist  |-> fields[6],
     Partition |-> fields[7],
     QoS       |-> fields[8],
     Reason    |-> fields[9]]

NewStep(fields) ==
    [ID |-> fields[1], Name |-> fields[2], State |-> fields[3]]

JobsLineStepAtLeast(js, line) ==
    LET fields == Split(line, "|") IN
    IF Len(fields) < JobFields
    THEN [kind |-> "skip", jobs |-> js]
    ELSE [kind |-> "ok", jobs |-> Append(js, NewJob(fields))]

JobsLineStep(js, line) ==
    LET fields == Split(line, "|") IN
    IF Len(fields) # JobFields
    THEN [kind |-> "skip", jobs |-> js]
    ELSE [kind |-> "ok", jobs |-> Append(js, NewJob(fields))]

StepsLineStep(ss, line) ==
    LET fields == Fields(line) IN
    IF Len(fields) # StepFields
    THEN [kind |-> "skip", steps |-> ss]
    ELSE [kind |-> "ok", steps |-> Append(ss, NewStep(fields))]

(***************************************************************************)
(* Command outputs the calls are checked on: up to MaxLines lines drawn    *)
(* from the sample lines of each command, each ended by "\n".              *)
(***************************************************************************)
RECURSIVE Join(_, _)
Join(fs, sep) ==
    IF fs = <<>> THEN <<>>
    ELSE IF Len(fs) = 1 THEN Head(fs)
    ELSE Head(fs) \o sep \o Join(Tail(fs), sep)

\* twenty nines and a letter: past the largest uint64 before the letter is read
HugeThenLetter ==
    <<"9","9","9","9","9","9","9","9","9","9",
      "9","9","9","9","9","9","9","9","9","9","x">>

NodeLineSamples ==
    { \* well-formed lines: n1 in p1 and in p2, n2 in p1
      Join(<< <<"n1">>, <<"p1">>, <<"idle">>, <<"6","4">>, <<"8">>, <<"2">>,
              <<"4">>, <<"1">>, <<"gpu">> >>, <<" ">>),
      Join(<< <<"n1">>, <<"p2">>, <<"idle">>, <<"6","4">>, <<"8">>, <<"2">>,
              <<"4">>, <<"1">>, <<"gpu">> >>, <<" ">>),
      Join(<< <<"n2">>, <<"p1">>, <<"mix">>, <<"3","2">>, <<"4">>, <<"1">>,
              <<"4">>, <<"1">>, <<"(null)">> >>, <<" ", "\t">>) \o <<" ", "\r">>,
      \* n1 again with every other field different
      Join(<< <<"n1">>, <<"p3">>, <<"down">>, <<"1">>, <<"1">>, <<"1">>,
              <<"1">>, <<"2">>, <<"(null)">> >>, <<" ">>),
      \* tokens that are not integers
      Join(<< <<"n3">>, <<"p1">>, <<"idle">>, <<"x">>, <<"-","0","7">>, <<>> \o <<"+">>,
              <<"4","k">>, <<"+","2">>, <<"gpu">> >>, <<" ">>),
      Join(<< <<"n4">>, <<"p1">>, <<"idle">>, HugeThenLetter, <<"8">>, <<"2">>,
              <<"4">>, <<"1">>, <<"gpu">> >>, <<" ">>),
      \* 6, 7, 8 and 10 fields
      Join(<< <<"n5">>, <<"p1">>, <<"idle">>, <<"6","4">>, <<"8">>, <<"2">> >>,
           <<" ">>),
      Join(<< <<"n5">>, <<"p1">>, <<"idle">>, <<"6","4">>, <<"8">>, <<"2">>,
              <<"4">> >>, <<" ">>),
      Join(<< <<"n1">>, <<"p4">>, <<"idle">>, <<"6","4">>, <<"8">>, <<"2">>,
              <<"4">>, <<"1">> >>, <<" ">>),
      Join(<< <<"n6">>, <<"p1">>, <<"idle">>, <<"6","4">>, <<"8">>, <<"2">>,
              <<"4">>, <<"1">>, <<"gpu">>, <<"extra">> >>, <<" ">>),
      \* an empty line
      <<>> }

JobLineSamples ==
    { Join(<< <<"1">>, <<"R">>, <<"u1">>, <<"A">>, <<"4">>, <<"n1">>, <<"p1">>,
              <<"normal">>, <<"None">> >>, <<"|">>),
      \* empty account and node list
      Join(<< <<"2">>, <<"PD">>, <<"u1">>, <<>>, <<"1">>, <<>>, <<"p1">>,
              <<"normal">>, <<"Resources">> >>, <<"|">>),
      Join(<< <<"3">>, <<"R">>, <<"u1">> >>, <<"|">>),
      Join(<< <<"4">>, <<"R">>, <<"u1">>, <<"A">>, <<"4">>, <<"n1">>, <<"p1">>,
              <<"normal">>, <<"None">>, <<"x">> >>, <<"|">>),
      <<>> }

StepLineSamples ==
    { Join(<< <<"1",".","0">>, <<"batch">>, <<"RUNNING">> >>, <<" ">>),
      Join(<< <<"1",".","1">>, <<"step">>, <<"PENDING">> >>, <<" ", " ">>),
      Join(<< <<"1",".","2">>, <<"step">> >>, <<" ">>),
      Join(<< <<"1",".","3">>, <<"my">>, <<"step">>, <<"RUNNING">> >>, <<" ">>) }

CtlOps == {"GetNodes", "GetJobs", "GetJob", "GetStepsOfJob"}
PartOps == {"GetPartitions", "GetPartition"}

LineSamples(o) ==
    CASE o = "GetNodes" -> NodeLineSamples
      [] o \in {"GetJobs", "GetJob"} -> JobLineSamples
      [] o = "GetStepsOfJob" -> StepLineSamples

TextOf(ls) == Concat([i \in 1..Len(ls) |-> ls[i] \o <<"\n">>])

Outputs(o) == {TextOf(ls) : ls \in SeqsUpTo(LineSamples(o), MaxLines)}

NoNodes == [n \in {} |-> 0]

\* an empty models.Partition
EmptyBlock == [k \in {} |-> <<>>]

\* a nil error, and an error value with its message
NilError == [kind |-> "nil"]
Err(e) == [kind |-> "error", err |-> e]

\* the error cmd.CombinedOutput() returns when the command fails
ExecError == <<"exit status 1">>

\* cmd.Path after exec.CommandContext: the path found for the name, or the
\* bare name when the lookup failed
ScontrolPaths == {<<"/usr/bin/scontrol">>, <<"scontrol">>}

\* the partition names GetPartition is called with
PartitionArgs == {<<"p1">>, <<"no", "such">>, <<>>}

\* the arguments each partition method hands to execCommand after the name
ScontrolArgs(o, name) ==
    IF o = "GetPartition"
    THEN << <<"show">>, <<"partition">>, name >>
    ELSE << <<"show">>, <<"partition">> >>

\* exec.Cmd.String(): the path, then each argument after a space
CmdString(path, args) == Join(<<path>> \o args, <<" ">>)

\* the message of the error each method returns when the command failed;
\* the partition methods format cmd.String() into theirs
ExecFailedMessage(o, path, name) ==
    CASE o \in {"GetNodes", "GetStepsOfJob"} -> <<"failed to exec sinfo command">>
      [] o = "GetJobs" -> <<"failed to exec squeue command">>
      [] o = "GetJob" -> <<"unable to get job in scheduling queue">>
      [] o \in PartOps ->
            <<"failed to exec ">> \o CmdString(path, ScontrolArgs(o, name))

\* no assembly in flight, no directory client
InitAuxIdle ==
    /\ asm = [pc |-> "idle"]
    /\ seen = {}
    /\ ldap = [ptr |-> FALSE, Conn |-> FALSE, entries |-> <<>>,
               calls |-> <<>>]

InitCtlIdle ==
    /\ op = "none" /\ out = <<>> /\ cmdErr = FALSE /\ pc = "idle"
    /\ lines = <<>> /\ consumed = <<>> /\ nodes = NoNodes
    /\ jobs = <<>> /\ steps = <<>> /\ warns = <<>>
    /\ parts = <<>> /\ current = EmptyBlock /\ ctlErr = NilError

InitDbIdle ==
    /\ client = [ptr |-> FALSE, DB |-> FALSE, ClusterName |-> <<>>]
    /\ assoc = <<>> /\ req = [op |-> "none"] /\ resp = [kind |-> "none"]
    /\ acctTable = <<>> /\ userTable = <<>> /\ queries = <<>>
    /\ InitAuxIdle

InitCtl ==
    /\ op \in CtlOps
    /\ out \in Outputs(op)
    /\ cmdErr \in BOOLEAN
    /\ pc = "call"
    /\ lines = <<>> /\ consumed = <<>> /\ nodes = NoNodes
    /\ jobs = <<>> /\ steps = <<>> /\ warns = <<>>
    /\ parts = <<>> /\ current = EmptyBlock /\ ctlErr = NilError
    /\ InitDbIdle

(***************************************************************************)
(* cmd.CombinedOutput() returns.  With an error every method logs it and   *)
(* returns (nil, a new error); otherwise the listing methods start a       *)
(* scanner over the output.                                                *)
(***************************************************************************)
ExecFailed ==
    /\ pc = "call" /\ cmdErr
    /\ op \in CtlOps \cup PartOps
    /\ pc' = "error"
    /\ \E path \in ScontrolPaths, name \in PartitionArgs :
          ctlErr' = Err(ExecFailedMessage(op, path, name))
    /\ UNCHANGED <<op, out, cmdErr, lines, consumed, nodes, jobs, steps, warns>>
    /\ UNCHANGED partVars
    /\ UNCHANGED dbVars

ExecListing ==
    /\ pc = "call" /\ ~cmdErr
    /\ op \in {"GetNodes", "GetJobs", "GetStepsOfJob"}
    /\ lines' = ScanLines(out)
    /\ pc' = "scan"
    /\ UNCHANGED <<op, out, cmdErr, consumed, nodes, jobs, steps, warns>>
    /\ UNCHANGED <<parts, current, ctlErr>>
    /\ UNCHANGED dbVars

\* one iteration of GetNodes' for scanner.Scan() loop
GetNodesLine ==
    /\ pc = "scan" /\ op = "GetNodes" /\ lines # <<>>
    /\ LET line == Head(lines)
           r == NodesLineStep(nodes, line)
       IN  /\ lines' = Tail(lines)
           /\ consumed' = Append(consumed, line)
           /\ nodes' = r.nodes
           /\ warns' = IF r.kind = "skip" THEN Append(warns, line) ELSE warns
           /\ pc' = IF r.kind = "panic" THEN "panic" ELSE "scan"
    /\ UNCHANGED <<op, out, cmdErr, jobs, steps>>
    /\ UNCHANGED <<parts, current, ctlErr>>
    /\ UNCHANGED dbVars

\* one iteration of GetJobs' loop
GetJobsLine ==
    /\ pc = "scan" /\ op = "GetJobs" /\ lines # <<>>
    /\ LET line == Head(lines)
           r == JobsLineStep(jobs, line)
       IN  /\ lines' = Tail(lines)
           /\ consumed' = Append(consumed, line)
           /\ jobs' = r.jobs
           /\ warns' = IF r.kind = "skip" THEN Append(warns, line) ELSE warns
    /\ UNCHANGED <<op, out, cmdErr, pc, nodes, steps>>
    /\ UNCHANGED <<parts, current, ctlErr>>
    /\ UNCHANGED dbVars

\* one iteration of GetStepsOfJob's loop
GetStepsLine ==
    /\ pc = "scan" /\ op = "GetStepsOfJob" /\ lines # <<>>
    /\ LET line == Head(lines)
           r == StepsLineStep(steps, line)
       IN  /\ lines' = Tail(lines)
           /\ consumed' = Append(consumed, line)
           /\ steps' = r.steps
           /\ warns' = IF r.kind = "skip" THEN Append(warns, line) ELSE warns
    /\ UNCHANGED <<op, out, cmdErr, pc, nodes, jobs>>
    /\ UNCHANGED <<parts, current, ctlErr>>
    /\ UNCHANGED dbVars

\* scanner.Scan() returns false: the listing method returns (result, nil)
ReturnListing ==
    /\ pc = "scan" /\ lines = <<>>
    /\ op \in {"GetNodes", "GetJobs", "GetStepsOfJob"}
    /\ pc' = "done"
    /\ UNCHANGED <<op, out, cmdErr, lines, consumed, nodes, jobs, steps, warns>>
    /\ UNCHANGED <<parts, current, ctlErr>>
    /\ UNCHANGED dbVars

\* GetJob after a successful command: the whole trimmed output is split
GetJobParse ==
    /\ pc = "call" /\ ~cmdErr /\ op = "GetJob"
    /\ LET fields == Split(TrimSpace(out), "|") IN
       IF Len(fields) # JobFields
       THEN /\ warns' = Append(warns, out)
            /\ pc' = "error"
            /\ ctlErr' = Err(<<"invalid squeue output line, skip">>)
            /\ jobs' = jobs
       ELSE /\ jobs' = <<NewJob(fields)>>
            /\ pc' = "done"
            /\ ctlErr' = ctlErr
            /\ warns' = warns
    /\ UNCHANGED <<op, out, cmdErr, lines, consumed, nodes, steps>>
    /\ UNCHANGED partVars
    /\ UNCHANGED dbVars

NextCtl ==
    \/ ExecFailed
    \/ ExecListing
    \/ GetNodesLine
    \/ GetJobsLine
    \/ GetStepsLine
    \/ ReturnListing
    \/ GetJobParse

SpecCtl == InitCtl /\ [][NextCtl]_vars

(***************************************************************************)
(* The partition parsers (scontrol show partition).  A models.Partition is *)
(* a map from key text to value text; a missing key reads as "".           *)
(***************************************************************************)
PartitionNameKey == <<"PartitionName">>

Lookup(m, k) == IF k \in DOMAIN m THEN m[k] ELSE <<>>

PutKey(m, k, v) == [x \in DOMAIN m \cup {k} |-> IF x = k THEN v ELSE m[x]]

\* the last position of c in s, 0 when there is none
LastIndexOf(s, c) ==
    IF \E i \in 1..Len(s) : s[i] = c
    THEN CHOOSE i \in 1..Len(s) : s[i] = c /\ \A j \in (i+1)..Len(s) : s[j] # c
    ELSE 0

SplitTokenAtLastEq(tok) ==
    LET eq == LastIndexOf(tok, "=") IN
    [has |-> eq > 0,
     key |-> SubSeq(tok, 1, eq - 1),
     val |-> SubSeq(tok, eq + 1, Len(tok))]

\* eq := strings.IndexByte(tok, '='); key := tok[:eq]; val := tok[eq+1:]
SplitToken(tok) ==
    LET eq == IndexOf(tok, "=") IN
    [has |-> eq > 0,
     key |-> SubSeq(tok, 1, eq - 1),
     val |-> SubSeq(tok, eq + 1, Len(tok))]

\* parts = append(parts, current); current = make(models.Partition)
FlushBlock(st) ==
    [parts |-> Append(st.parts, st.current), current |-> EmptyBlock]

PartitionsTokenFlushUnnamed(st, tok) ==
    LET kv == SplitToken(tok) IN
    IF ~kv.has THEN st
    ELSE LET st1 == IF /\ kv.key = PartitionNameKey
                       /\ DOMAIN st.current # {}
                    THEN FlushBlock(st)
                    ELSE st
         IN  [parts |-> st1.parts,
              current |-> PutKey(st1.current, kv.key, kv.val)]

\* one token of parsePartitions; st is [parts, current]
PartitionsToken(st, tok) ==
    LET kv == SplitToken(tok) IN
    IF ~kv.has THEN st
    ELSE LET st1 == IF /\ kv.key = PartitionNameKey
                       /\ DOMAIN st.current # {}
                       /\ Lookup(st.current, PartitionNameKey) # <<>>
                    THEN FlushBlock(st)
                    ELSE st
         IN  [parts |-> st1.parts,
              current |-> PutKey(st1.current, kv.key, kv.val)]

RECURSIVE PartitionsTokens(_, _)
PartitionsTokens(st, toks) ==
    IF toks = <<>> THEN st
    ELSE PartitionsTokens(PartitionsToken(st, Head(toks)), Tail(toks))

\* one iteration of parsePartitions' loop
PartitionsLineStep(st, line) ==
    LET trimmed == TrimSpace(line) IN
    IF trimmed = <<>>
    THEN (IF DOMAIN st.current # {} THEN FlushBlock(st) ELSE st)
    ELSE PartitionsTokens(st, Fields(trimmed))

FinishPartitionsNoFlush(st) == st.parts

FinishPartitionsFirst(st) ==
    IF DOMAIN st.current # {} THEN <<st.current>> \o st.parts ELSE st.parts

\* after the loop: a block still open is appended, and parts is returned
FinishPartitions(st) ==
    IF DOMAIN st.current # {} THEN Append(st.parts, st.current) ELSE st.parts

PartitionTokenKeepFirst(cur, tok) ==
    LET kv == SplitToken(tok) IN
    IF kv.has /\ kv.key \notin DOMAIN cur
    THEN PutKey(cur, kv.key, kv.val) ELSE cur

\* one token of parsePartition
PartitionToken(cur, tok) ==
    LET kv == SplitToken(tok) IN
    IF kv.has THEN PutKey(cur, kv.key, kv.val) ELSE cur

RECURSIVE PartitionTokens(_, _)
PartitionTokens(cur, toks) ==
    IF toks = <<>> THEN cur
    ELSE PartitionTokens(PartitionToken(cur, Head(toks)), Tail(toks))

\* one iteration of parsePartition's loop
PartitionLineStep(cur, line) == PartitionTokens(cur, Fields(TrimSpace(line)))

\* lines of scontrol output: the two blocks of the sample, blank lines, a
\* block whose name is empty, a continuation line with a token that has no
\* "=", one with two "=" and one that starts with "=", a line that repeats a
\* key around a PartitionName token, and a line without any "="
PartitionLineSamples ==
    { <<"PartitionName", "=", "p1", " ", "Nodes", "=", "node44", " ",
        "State", "=", "UP">>,
      <<"PartitionName", "=", "p2", " ", "Nodes", "=", "node2026", " ",
        "MaxTime", "=", "UNLIMITED">>,
      <<>>,
      <<" ", "\t", "\r">>,
      <<"PartitionName", "=", " ", "State", "=", "DOWN">>,
      <<" ", " ", " ", "Default", "=", "NO", " ", "junk", " ",
        "TRES", "=", "cpu", "=", "4", " ", "=", "x">>,
      <<"State", "=", "DOWN", " ", "PartitionName", "=", "p2", " ",
        "State", "=", "UP">>,
      <<"junk">> }

PartitionOutputs ==
    {TextOf(ls) : ls \in SeqsUpTo(PartitionLineSamples, MaxLines)}

InitPart ==
    /\ op \in PartOps
    /\ out \in PartitionOutputs
    /\ cmdErr \in BOOLEAN
    /\ pc = "call"
    /\ lines = <<>> /\ consumed = <<>> /\ nodes = NoNodes
    /\ jobs = <<>> /\ steps = <<>> /\ warns = <<>>
    /\ parts = <<>> /\ current = EmptyBlock /\ ctlErr = NilError
    /\ InitDbIdle

\* the command succeeded: the parser starts a scanner over the output
ExecPartitions ==
    /\ pc = "call" /\ ~cmdErr /\ op \in PartOps
    /\ lines' = ScanLines(out)
    /\ pc' = "scan"
    /\ UNCHANGED <<op, out, cmdErr, consumed, warns, parts, current, ctlErr>>
    /\ UNCHANGED listVars
    /\ UNCHANGED dbVars

ParsePartitionsLine ==
    /\ pc = "scan" /\ op = "GetPartitions" /\ lines # <<>>
    /\ LET r == PartitionsLineStep([parts |-> parts, current |-> current],
                                   Head(lines))
       IN  /\ parts' = r.parts
           /\ current' = r.current
    /\ lines' = Tail(lines)
    /\ consumed' = Append(consumed, Head(lines))
    /\ UNCHANGED <<op, out, cmdErr, pc, warns, ctlErr>>
    /\ UNCHANGED listVars
    /\ UNCHANGED dbVars

ParsePartitionLine ==
    /\ pc = "scan" /\ op = "GetPartition" /\ lines # <<>>
    /\ current' = PartitionLineStep(current, Head(lines))
    /\ lines' = Tail(lines)
    /\ consumed' = Append(consumed, Head(lines))
    /\ UNCHANGED <<op, out, cmdErr, pc, warns, parts, ctlErr>>
    /\ UNCHANGED listVars
    /\ UNCHANGED dbVars

\* parsePartitions returns parts, GetPartitions returns (parts, nil)
ReturnPartitions ==
    /\ pc = "scan" /\ op = "GetPartitions" /\ lines = <<>>
    /\ parts' = FinishPartitions([parts |-> parts, current |-> current])
    /\ pc' = "done"
    /\ UNCHANGED <<op, out, cmdErr, lines, consumed, warns, current, ctlErr>>
    /\ UNCHANGED listVars
    /\ UNCHANGED dbVars

\* parsePartition returns current, GetPartition returns (current, nil)
ReturnPartition ==
    /\ pc = "scan" /\ op = "GetPartition" /\ lines = <<>>
    /\ pc' = "done"
    /\ UNCHANGED <<op, out, cmdErr, lines, consumed, warns, parts, current,
                   ctlErr>>
    /\ UNCHANGED listVars
    /\ UNCHANGED dbVars

\* parsePartition and parsePartitions as functions of the scanned lines
RECURSIVE parsePartitionFrom(_, _)
parsePartitionFrom(cur, ls) ==
    IF ls = <<>> THEN cur
    ELSE parsePartitionFrom(PartitionLineStep(cur, Head(ls)), Tail(ls))

parsePartition(ls) == parsePartitionFrom(EmptyBlock, ls)

RECURSIVE parsePartitionsFrom(_, _)
parsePartitionsFrom(st, ls) ==
    IF ls = <<>> THEN FinishPartitions(st)
    ELSE parsePartitionsFrom(PartitionsLineStep(st, Head(ls)), Tail(ls))

parsePartitions(ls) ==
    parsePartitionsFrom([parts |-> <<>>, current |-> EmptyBlock], ls)

NextPart ==
    \/ ExecFailed
    \/ ExecPartitions
    \/ ParsePartitionsLine
    \/ ParsePartitionLine
    \/ ReturnPartitions
    \/ ReturnPartition

SpecPart == InitPart /\ [][NextPart]_vars

(***************************************************************************)
(* The accounting store.  A row of <cluster>_assoc_table keeps the columns *)
(* the resolver reads; the table is held in primary-key order.  Names are  *)
(* symbol sequences, <<>> being the empty string; SQL "=" is equality.  A  *)
(* *string argument is <<>> for nil and <<s>> for a pointer to s.          *)
(***************************************************************************)
Accts == {<<"A">>, <<"B">>, <<"C">>}
Users == {<<>>, <<"u1">>}
Parts == {<<>>, <<"p1">>, <<"p2">>}
Parents == {<<>>, <<"A">>, <<"B">>}

\* the rows the stores are built from: every account, user and deleted flag,
\* with either the partition or the parent account varying
AssocRows ==
    [acct : Accts, user : Users, partition : Parts, parent_acct : {<<>>},
     deleted : {0, 1}]
    \cup
    [acct : Accts, user : Users, partition : {<<>>}, parent_acct : Parents,
     deleted : {0, 1}]

\* the cluster whose tables the store holds
StoreCluster == <<"c1">>

\* a *Client: ptr is c != nil, DB is c.DB != nil
GoodClient == [ptr |-> TRUE, DB |-> TRUE, ClusterName |-> StoreCluster]

Clients ==
    { GoodClient,
      [ptr |-> FALSE, DB |-> FALSE, ClusterName |-> <<>>],
      [ptr |-> TRUE, DB |-> FALSE, ClusterName |-> StoreCluster],
      [ptr |-> TRUE, DB |-> TRUE, ClusterName |-> <<" ">>],
      [ptr |-> TRUE, DB |-> TRUE, ClusterName |-> <<"c2">>] }

Nil == <<>>
Ptr(s) == <<s>>

Blank(s) == TrimSpace(s) = <<>>

ErrRecordNotFound == "record not found"
ErrMultipleAssociations == "multiple associations matched"
\* the store's own error for a table that does not exist
ErrNoTable == "table does not exist"

(***************************************************************************)
(* FindAssociationOne: account required, user and partition optional.      *)
(***************************************************************************)
FindAssociationOneFirstRow(c, t, account, user, partition) ==
    IF ~c.ptr \/ ~c.DB THEN Err("nil slurmdb Client")
    ELSE IF Blank(account) THEN Err("account is required")
    ELSE IF Blank(c.ClusterName) THEN Err("cluster name is empty in slurmdb Client")
    ELSE IF c.ClusterName # StoreCluster THEN Err(ErrNoTable)
    ELSE LET rows == SelectSeq(t, LAMBDA r :
                        /\ r.deleted = 0 /\ r.acct = account
                        /\ (user # Nil /\ ~Blank(user[1]) => r.user = user[1])
                        /\ (partition # Nil /\ ~Blank(partition[1])
                              => r.partition = partition[1]))
         IN  IF Len(rows) = 0 THEN Err(ErrRecordNotFound)
             ELSE [kind |-> "row", row |-> rows[1]]

FindAssociationOneEmptyIsFilter(c, t, account, user, partition) ==
    IF ~c.ptr \/ ~c.DB THEN Err("nil slurmdb Client")
    ELSE IF Blank(account) THEN Err("account is required")
    ELSE IF Blank(c.ClusterName) THEN Err("cluster name is empty in slurmdb Client")
    ELSE IF c.ClusterName # StoreCluster THEN Err(ErrNoTable)
    ELSE LET rows == SelectSeq(t, LAMBDA r :
                        /\ r.deleted = 0 /\ r.acct = account
                        /\ (user # Nil => r.user = user[1])
                        /\ (partition # Nil => r.partition = partition[1]))
         IN  IF Len(rows) = 0 THEN Err(ErrRecordNotFound)
             ELSE IF Len(rows) = 1 THEN [kind |-> "row", row |-> rows[1]]
             ELSE Err(ErrMultipleAssociations)

FindAssociationOne(c, t, account, user, partition) ==
    IF ~c.ptr \/ ~c.DB THEN Err("nil slurmdb Client")
    ELSE IF Blank(account) THEN Err("account is required")
    ELSE IF Blank(c.ClusterName) THEN Err("cluster name is empty in slurmdb Client")
    ELSE IF c.ClusterName # StoreCluster THEN Err(ErrNoTable)
    ELSE LET rows == SelectSeq(t, LAMBDA r :
                        /\ r.deleted = 0 /\ r.acct = account
                        /\ (user # Nil /\ ~Blank(user[1]) => r.user = user[1])
                        /\ (partition # Nil /\ ~Blank(partition[1])
                              => r.partition = partition[1]))
         IN  IF Len(rows) = 0 THEN Err(ErrRecordNotFound)
             ELSE IF Len(rows) = 1 THEN [kind |-> "row", row |-> rows[1]]
             ELSE Err(ErrMultipleAssociations)

(***************************************************************************)
(* GetAssociation: all three columns are compared with the arguments, and  *)
(* First() takes the matching row with the lowest primary key.             *)
(***************************************************************************)
GetAssociation(c, t, account, user, partition) ==
    IF ~c.ptr \/ ~c.DB THEN Err("nil slurmdb Client")
    ELSE IF Blank(c.ClusterName) THEN Err("cluster name is empty in slurmdb Client")
    ELSE IF c.ClusterName # StoreCluster THEN Err(ErrNoTable)
    ELSE LET rows == SelectSeq(t, LAMBDA r :
                        /\ r.deleted = 0 /\ r.acct = account
                        /\ r.user = user /\ r.partition = partition)
         IN  IF Len(rows) = 0 THEN Err(ErrRecordNotFound)
             ELSE [kind |-> "row", row |-> rows[1]]

(***************************************************************************)
(* HandlerGetTreeAssociationsDetail.  q holds the query parameters, each   *)
(* <<>> when absent and <<s>> when given; c.Query and c.DefaultQuery(_,"") *)
(* both read an absent parameter as the empty string.                      *)
(***************************************************************************)
Query(param) == IF param = <<>> THEN <<>> ELSE param[1]

HandlerGetTreeAssociationsDetail(c, t, q) ==
    IF ~c.ptr
    THEN [status |-> 500, detail |-> "slurmdb client not initialized"]
    ELSE IF Query(q.account) = <<>>
    THEN [status |-> 400, detail |-> "missing account parameter"]
    ELSE LET r == GetAssociation(c, t, Query(q.account), Query(q.user),
                                 Query(q.partition))
         IN  IF r.kind = "error"
             THEN IF r.err = ErrRecordNotFound
                  THEN [status |-> 400, detail |-> "association not found"]
                  ELSE [status |-> 500, detail |-> r.err]
             ELSE [status |-> 200, results |-> r.row]

(***************************************************************************)
(* GetSubAccountsAndUsers: two DISTINCT plucks, returned here as sets (the *)
(* store fixes no order).                                                  *)
(***************************************************************************)
GetSubAccountsAndUsersDeep(c, t, account) ==
    IF ~c.ptr \/ ~c.DB THEN Err("nil slurmdb Client")
    ELSE IF Blank(account) THEN Err("account name is required")
    ELSE IF Blank(c.ClusterName) THEN Err("cluster name is empty in slurmdb Client")
    ELSE IF c.ClusterName # StoreCluster THEN Err(ErrNoTable)
    ELSE LET direct == {r.acct : r \in {x \in Range(t) :
                           x.parent_acct = account /\ x.deleted = 0 /\ x.user = <<>>}}
         IN [kind |-> "ok",
             subAccts |-> direct \cup {r.acct : r \in {x \in Range(t) :
                 x.parent_acct \in direct /\ x.deleted = 0 /\ x.user = <<>>}},
             subUsers |-> {r.user : r \in {x \in Range(t) :
                 x.acct = account /\ x.deleted = 0 /\ x.user # <<>>}}]

GetSubAccountsAndUsers(c, t, account) ==
    IF ~c.ptr \/ ~c.DB THEN Err("nil slurmdb Client")
    ELSE IF Blank(account) THEN Err("account name is required")
    ELSE IF Blank(c.ClusterName) THEN Err("cluster name is empty in slurmdb Client")
    ELSE IF c.ClusterName # StoreCluster THEN Err(ErrNoTable)
    ELSE [kind |-> "ok",
          subAccts |-> {r.acct : r \in {x \in Range(t) :
              x.parent_acct = account /\ x.deleted = 0 /\ x.user = <<>>}},
          subUsers |-> {r.user : r \in {x \in Range(t) :
              x.acct = account /\ x.deleted = 0 /\ x.user # <<>>}}]

(***************************************************************************)
(* GetPartitionOfAccount plucks DISTINCT partition into one string: every  *)
(* row of the result is scanned into it, so the string is that of the row  *)
(* the store delivers last, and "" when there is none.  The store fixes no *)
(* order, so any of the distinct values can be the one returned.  The      *)
(* method checks neither its receiver nor its argument: a nil receiver or  *)
(* DB is a nil dereference.                                                *)
(***************************************************************************)
DefaultPartitions(t, account) ==
    {r.partition : r \in {x \in Range(t) :
        x.acct = account /\ x.deleted = 0 /\ x.user = <<>>}}

GetPartitionOfAccountOutcomes(c, t, account) ==
    IF ~c.ptr \/ ~c.DB THEN {[kind |-> "panic"]}
    ELSE IF c.ClusterName # StoreCluster THEN {Err(ErrNoTable)}
    ELSE IF DefaultPartitions(t, account) = {}
    THEN {[kind |-> "ok", partition |-> <<>>]}
    ELSE {[kind |-> "ok", partition |-> p] : p \in DefaultPartitions(t, account)}

(***************************************************************************)
(* The queries each method sends to the store: none when it returns at one *)
(* of its checks, and none after a query that failed.                      *)
(***************************************************************************)
AssocQuery == "assoc_table"
AcctQuery == "acct_table"
UserQuery == "user_table"

Usable(c) == c.ptr /\ c.DB /\ ~Blank(c.ClusterName)

FindAssociationOneQueries(c, account) ==
    IF Usable(c) /\ ~Blank(account) THEN <<AssocQuery>> ELSE <<>>

GetAssociationQueries(c) ==
    IF Usable(c) THEN <<AssocQuery>> ELSE <<>>

GetSubAccountsAndUsersQueries(c, account) ==
    IF ~(Usable(c) /\ ~Blank(account)) THEN <<>>
    ELSE IF c.ClusterName # StoreCluster THEN <<AssocQuery>>
    ELSE <<AssocQuery, AssocQuery>>

GetPartitionOfAccountQueries(c) ==
    IF c.ptr /\ c.DB THEN <<AssocQuery>> ELSE <<>>

HandlerGetTreeAssociationsDetailQueries(c, q) ==
    IF c.ptr /\ Query(q.account) # <<>> THEN GetAssociationQueries(c) ELSE <<>>

(***************************************************************************)
(* The resolver's calls, each on a store of up to MaxRows rows.  A client  *)
(* that is not usable is tried on the smaller stores only.                 *)
(***************************************************************************)
ArgAccounts == {<<"A">>, <<"B">>, <<" ">>}
ArgUsers == {Nil, Ptr(<<" ">>), Ptr(<<"u1">>)}
ArgParts == {Nil, Ptr(<<>>), Ptr(<<"p1">>)}

DetailQueries ==
    [account : {<<>>, <<<<"A">>>>},
     user : {<<>>, <<<<"u1">>>>},
     partition : {<<>>, <<<<"p1">>>>}]

InitDb ==
    /\ client \in Clients
    /\ assoc \in SeqsUpTo(AssocRows, IF client = GoodClient THEN MaxRows ELSE 1)
    /\ req = [op |-> "none"]
    /\ resp = [kind |-> "none"]
    /\ acctTable = <<>> /\ userTable = <<>> /\ queries = <<>>
    /\ InitCtlIdle
    /\ InitAuxIdle

CallFindAssociationOne ==
    /\ req.op = "none"
    /\ \E account \in {<<"A">>, <<" ">>}, user \in ArgUsers,
          partition \in ArgParts :
        /\ req' = [op |-> "FindAssociationOne", account |-> account,
                   user |-> user, partition |-> partition]
        /\ resp' = FindAssociationOne(client, assoc, account, user, partition)
        /\ queries' = FindAssociationOneQueries(client, account)
    /\ UNCHANGED <<client, assoc, acctTable, userTable>>
    /\ UNCHANGED ctlVars
    /\ UNCHANGED auxVars

RequestAssociationsDetail ==
    /\ req.op = "none"
    /\ \E q \in DetailQueries :
        /\ req' = [op |-> "HandlerGetTreeAssociationsDetail", q |-> q]
        /\ resp' = HandlerGetTreeAssociationsDetail(client, assoc, q)
        /\ queries' = HandlerGetTreeAssociationsDetailQueries(client, q)
    /\ UNCHANGED <<client, assoc, acctTable, userTable>>
    /\ UNCHANGED ctlVars
    /\ UNCHANGED auxVars

CallGetPartitionOfAccount ==
    /\ req.op = "none"
    /\ \E account \in ArgAccounts :
        /\ req' = [op |-> "GetPartitionOfAccount", account |-> account]
        /\ resp' \in GetPartitionOfAccountOutcomes(client, assoc, account)
        /\ queries' = GetPartitionOfAccountQueries(client)
    /\ UNCHANGED <<client, assoc, acctTable, userTable>>
    /\ UNCHANGED ctlVars
    /\ UNCHANGED auxVars


(***************************************************************************)
(* The tree assemblies and the lookups they call.  An error built with %w  *)
(* keeps the error it wraps as its cause.                                  *)
(***************************************************************************)
MaxEdges == 2

Wrap(msg, r) == [kind |-> "error", err |-> msg, cause |-> r.err]

\* errors.Is(r, target) for an error value of the model
ErrorsIs(r, target) ==
    /\ r.kind = "error"
    /\ \/ r.err = target
       \/ ("cause" \in DOMAIN r /\ r.cause = target)

\* the enumerations of a set: the order in which a store delivers the rows
\* of a query that has no ORDER BY
Orders(S) == {s \in [1..Cardinality(S) -> S] : Range(s) = S}

\* acct_table and user_table, rows in primary-key (name) order
AcctTables ==
    { <<>>,
      << [name |-> <<"A">>, description |-> "dA", organization |-> "oA",
          deleted |-> 0],
         [name |-> <<"B">>, description |-> "dB", organization |-> "oB",
          deleted |-> 0] >>,
      << [name |-> <<"A">>, description |-> "dA", organization |-> "oA",
          deleted |-> 1],
         [name |-> <<"B">>, description |-> "dB", organization |-> "oB",
          deleted |-> 0] >> }

UserTables ==
    { <<>>,
      << [name |-> <<"u1">>, admin_level |-> 1, deleted |-> 0],
         [name |-> <<"u2">>, admin_level |-> 2, deleted |-> 0] >>,
      << [name |-> <<"u1">>, admin_level |-> 3, deleted |-> 1],
         [name |-> <<"u2">>, admin_level |-> 2, deleted |-> 0] >> }

Edge(a, u, p, pa, d) ==
    [acct |-> a, user |-> u, partition |-> p, parent_acct |-> pa, deleted |-> d]

\* the edges the stores of the tree assemblies are built from
TreeRows ==
    { Edge(<<"B">>, <<>>, <<>>, <<"A">>, 0),
      Edge(<<"C">>, <<>>, <<>>, <<"B">>, 0),
      Edge(<<"B">>, <<>>, <<>>, <<"A">>, 1),
      Edge(<<"A">>, <<>>, <<"p1">>, <<>>, 0),
      Edge(<<"A">>, <<>>, <<>>, <<>>, 0),
      Edge(<<"A">>, <<"u1">>, <<"p1">>, <<>>, 0),
      Edge(<<"A">>, <<"u1">>, <<"p2">>, <<>>, 0),
      Edge(<<"A">>, <<"u1">>, <<"p1">>, <<>>, 1),
      Edge(<<"A">>, <<"u2">>, <<>>, <<>>, 0),
      Edge(<<"B">>, <<"u1">>, <<"p2">>, <<>>, 0) }

\* GetAcctByName: First() takes the matching row with the lowest name
GetAcctByName(c, at, name) ==
    IF ~c.ptr \/ ~c.DB THEN Err("nil slurmdb Client")
    ELSE IF Blank(name) THEN Err("account name is required")
    ELSE LET rows == SelectSeq(at, LAMBDA r : r.deleted = 0 /\ r.name = name)
         IN  IF Len(rows) = 0 THEN Err(ErrRecordNotFound)
             ELSE [kind |-> "row", row |-> rows[1]]

GetAcctByNameQueries(c, name) ==
    IF c.ptr /\ c.DB /\ ~Blank(name) THEN <<AcctQuery>> ELSE <<>>

GetParentAccountsByUserAnyState(c, t, username) ==
    IF ~c.ptr \/ ~c.DB THEN Err("nil slurmdb Client")
    ELSE IF Blank(username) THEN Err("username is required")
    ELSE IF Blank(c.ClusterName) THEN Err("cluster name is empty in slurmdb Client")
    ELSE IF c.ClusterName # StoreCluster THEN Err(ErrNoTable)
    ELSE [kind |-> "ok",
          accts |-> {r.acct : r \in {x \in Range(t) : x.user = username}}]

GetParentAccountsByUser(c, t, username) ==
    IF ~c.ptr \/ ~c.DB THEN Err("nil slurmdb Client")
    ELSE IF Blank(username) THEN Err("username is required")
    ELSE IF Blank(c.ClusterName) THEN Err("cluster name is empty in slurmdb Client")
    ELSE IF c.ClusterName # StoreCluster THEN Err(ErrNoTable)
    ELSE [kind |-> "ok",
          accts |-> {r.acct : r \in {x \in Range(t) :
                        x.user = username /\ x.deleted = 0}}]

GetParentAccountsByUserQueries(c, username) ==
    IF Usable(c) /\ ~Blank(username) THEN <<AssocQuery>> ELSE <<>>

GetPartitionsOfUserAnyAccount(c, t, account, user) ==
    IF ~c.ptr \/ ~c.DB THEN Err("nil slurmdb Client")
    ELSE IF Blank(account) THEN Err("account name is required")
    ELSE IF Blank(user) THEN Err("username is required")
    ELSE IF Blank(c.ClusterName) THEN Err("cluster name is empty in slurmdb Client")
    ELSE IF c.ClusterName # StoreCluster THEN Err(ErrNoTable)
    ELSE [kind |-> "ok",
          parts |-> {r.partition : r \in {x \in Range(t) :
                        /\ x.user = user /\ x.deleted = 0
                        /\ x.partition # <<>>}}]

GetPartitionsOfUser(c, t, account, user) ==
    IF ~c.ptr \/ ~c.DB THEN Err("nil slurmdb Client")
    ELSE IF Blank(account) THEN Err("account name is required")
    ELSE IF Blank(user) THEN Err("username is required")
    ELSE IF Blank(c.ClusterName) THEN Err("cluster name is empty in slurmdb Client")
    ELSE IF c.ClusterName # StoreCluster THEN Err(ErrNoTable)
    ELSE [kind |-> "ok",
          parts |-> {r.partition : r \in {x \in Range(t) :
                        /\ x.acct = account /\ x.user = user /\ x.deleted = 0
                        /\ x.partition # <<>>}}]

GetPartitionsOfUserQueries(c, account, user) ==
    IF Usable(c) /\ ~Blank(account) /\ ~Blank(user) THEN <<AssocQuery>> ELSE <<>>

\* the names GetUserAdminLevels puts in its IN list: no "", none twice
RECURSIVE Uniq(_, _)
Uniq(names, list) ==
    IF names = <<>> THEN list
    ELSE Uniq(Tail(names),
              IF Head(names) = <<>> \/ Head(names) \in Range(list)
              THEN list ELSE Append(list, Head(names)))

GetUserAdminLevelsAnyState(c, ut, usernames) ==
    IF ~c.ptr \/ ~c.DB THEN Err("nil slurmdb Client")
    ELSE LET list == Uniq(usernames, <<>>)
             rows == {r \in Range(ut) : r.name \in Range(list)}
         IN  [kind |-> "ok",
              levels |-> [n \in {r.name : r \in rows} |->
                             (CHOOSE r \in rows : r.name = n).admin_level]]

\* GetUserAdminLevels: a map from name to admin_level; unknown users are
\* left out of it
GetUserAdminLevels(c, ut, usernames) ==
    IF ~c.ptr \/ ~c.DB THEN Err("nil slurmdb Client")
    ELSE LET list == Uniq(usernames, <<>>)
             rows == {r \in Range(ut) : r.deleted = 0 /\ r.name \in Range(list)}
         IN  [kind |-> "ok",
              levels |-> [n \in {r.name : r \in rows} |->
                             (CHOOSE r \in rows : r.name = n).admin_level]]

GetUserAdminLevelsQueries(c, usernames) ==
    IF c.ptr /\ c.DB /\ Uniq(usernames, <<>>) # <<>> THEN <<UserQuery>> ELSE <<>>

\* al[name]: the zero value when the map has no such key
AdminLevelOf(levels, name) == IF name \in DOMAIN levels THEN levels[name] ELSE 0

(***************************************************************************)
(* GetChildNodesOfAccount on a store that stands still while the call     *)
(* runs (the calls themselves, query by query, follow further down).  st   *)
(* holds the UserNodes built and the queries sent so far; names is the     *)
(* order in which the store delivered the sub-users.  A call that fails    *)
(* returns its error (the partly built tree that comes with it is not      *)
(* modelled).                                                              *)
(***************************************************************************)
RECURSIVE AccountUsersFrom(_, _, _, _, _)
AccountUsersFrom(c, t, ut, names, st) ==
    IF names = <<>>
    THEN [kind |-> "ok", users |-> st.users, queries |-> st.queries]
    ELSE LET name == Head(names)
             ps == GetParentAccountsByUser(c, t, name)
             q1 == st.queries \o GetParentAccountsByUserQueries(c, name)
             al == GetUserAdminLevels(c, ut, <<name>>)
             q2 == q1 \o GetUserAdminLevelsQueries(c, <<name>>)
         IN  IF ps.kind = "error"
             THEN [kind |-> "error", queries |-> q1,
                   resp |-> Wrap("unable to find user's all parents", ps)]
             ELSE IF al.kind = "error"
             THEN [kind |-> "error", queries |-> q2,
                   resp |-> Wrap("unable to find user's admin level", al)]
             ELSE AccountUsersFrom(c, t, ut, Tail(names),
                      [users |-> Append(st.users,
                           [Name |-> name,
                            AdminLevel |-> AdminLevelOf(al.levels, name),
                            AvailableAccounts |-> ps.accts]),
                       queries |-> q2])

GetChildNodesOfAccountOutcomes(c, t, at, ut, account) ==
    IF ~c.ptr \/ ~c.DB
    THEN {[resp |-> Err("nil slurmdb Client"), queries |-> <<>>]}
    ELSE IF Blank(account)
    THEN {[resp |-> Err("account name is required"), queries |-> <<>>]}
    ELSE LET acct == GetAcctByName(c, at, account)
             q1 == GetAcctByNameQueries(c, account)
             sub == GetSubAccountsAndUsers(c, t, account)
             q2 == q1 \o GetSubAccountsAndUsersQueries(c, account)
         IN  IF acct.kind = "error"
             THEN {[resp |-> Wrap("unable to find account", acct),
                    queries |-> q1]}
             ELSE IF sub.kind = "error"
             THEN {[resp |-> Wrap("unable to find subaccounts or subusers", sub),
                    queries |-> q2]}
             ELSE { LET us == AccountUsersFrom(c, t, ut, names,
                                  [users |-> <<>>, queries |-> q2])
                    IN  IF us.kind = "error"
                        THEN [resp |-> us.resp, queries |-> us.queries]
                        ELSE [resp |-> [kind |-> "ok",
                                        tree |-> [Name |-> account,
                                                  Description |-> acct.row.description,
                                                  Organization |-> acct.row.organization,
                                                  SubAccounts |-> sub.subAccts,
                                                  SubUsers |-> us.users]],
                              queries |-> us.queries]
                    : names \in Orders(sub.subUsers) }

(***************************************************************************)
(* GetAssociationChildNodesOfAccount and GetAssociationTree, on a store    *)
(* that stands still as well.                                              *)
(***************************************************************************)
RECURSIVE AssociationUsersFrom(_, _, _, _, _)
AssociationUsersFrom(c, t, account, names, st) ==
    IF names = <<>>
    THEN [kind |-> "ok", users |-> st.users, queries |-> st.queries]
    ELSE LET u == Head(names)
             ps == GetPartitionsOfUser(c, t, account, u)
             q1 == st.queries \o GetPartitionsOfUserQueries(c, account, u)
         IN  IF ps.kind = "error"
             THEN [kind |-> "error", queries |-> q1,
                   resp |-> Wrap("unable to find partitions for user", ps)]
             ELSE AssociationUsersFrom(c, t, account, Tail(names),
                      [users |-> Append(st.users,
                           [Name |-> u, Partitions |-> ps.parts]),
                       queries |-> q1])

GetAssociationChildNodesOfAccountOutcomes(c, t, account) ==
    IF ~c.ptr \/ ~c.DB
    THEN {[resp |-> Err("nil slurmdb Client"), queries |-> <<>>]}
    ELSE IF Blank(account)
    THEN {[resp |-> Err("account name is required"), queries |-> <<>>]}
    ELSE LET q1 == GetPartitionOfAccountQueries(c)
             sub == GetSubAccountsAndUsers(c, t, account)
             q2 == q1 \o GetSubAccountsAndUsersQueries(c, account)
         IN  UNION {
               IF part.kind = "error"
               THEN {[resp |-> Wrap("unable to find account's partition", part),
                      queries |-> q1]}
               ELSE IF sub.kind = "error"
               THEN {[resp |-> Wrap("unable to find subaccounts or subusers", sub),
                      queries |-> q2]}
               ELSE { LET us == AssociationUsersFrom(c, t, account, names,
                                    [users |-> <<>>, queries |-> q2])
                      IN  IF us.kind = "error"
                          THEN [resp |-> us.resp, queries |-> us.queries]
                          ELSE [resp |-> [kind |-> "ok",
                                          tree |-> [Name |-> account,
                                                    Partition |-> part.partition,
                                                    SubAccounts |-> sub.subAccts,
                                                    SubUsers |-> us.users]],
                                queries |-> us.queries]
                      : names \in Orders(sub.subUsers) }
               : part \in GetPartitionOfAccountOutcomes(c, t, account) }

\* err.Error(): the message of an error, with that of the error it wraps
ErrorText(r) ==
    IF "cause" \in DOMAIN r THEN <<r.err, r.cause>> ELSE <<r.err>>

\* the response both child-node handlers build from the client's result
ChildNodesResponse(r) ==
    IF r.kind = "error"
    THEN IF ErrorsIs(r, ErrRecordNotFound)
         THEN [kind |-> "http", status |-> 400,
               detail |-> <<"account not found or deleted">>]
         ELSE [kind |-> "http", status |-> 500, detail |-> ErrorText(r)]
    ELSE [kind |-> "http", status |-> 200, results |-> r.tree]

HandlerChildNodesOfAccountOutcomes(c, t, at, ut, account) ==
    IF ~c.ptr
    THEN {[resp |-> [kind |-> "http", status |-> 500,
                     detail |-> <<"slurmdb client not initialized">>],
           queries |-> <<>>]}
    ELSE IF account = <<>>
    THEN {[resp |-> [kind |-> "http", status |-> 400,
                     detail |-> <<"missing account parameter">>],
           queries |-> <<>>]}
    ELSE {[resp |-> ChildNodesResponse(o.resp), queries |-> o.queries] :
             o \in GetChildNodesOfAccountOutcomes(c, t, at, ut, account)}

HandlerGetAssociationChildNodesOfAccountOutcomes(c, t, account) ==
    IF ~c.ptr
    THEN {[resp |-> [kind |-> "http", status |-> 500,
                     detail |-> <<"slurmdb client not initialized">>],
           queries |-> <<>>]}
    ELSE IF Blank(account)
    THEN {[resp |-> [kind |-> "http", status |-> 400,
                     detail |-> <<"missing account parameter">>],
           queries |-> <<>>]}
    ELSE {[resp |-> ChildNodesResponse(o.resp), queries |-> o.queries] :
             o \in GetAssociationChildNodesOfAccountOutcomes(c, t, account)}

\* the AssociationUser of GetAssociationTree names its list Partition
AssociationUser(n) == [Name |-> n.Name, Partition |-> n.Partitions]

GetAssociationTreeOutcomes(c, t, account) ==
    IF ~c.ptr \/ ~c.DB
    THEN {[resp |-> Err("nil slurmdb Client"), queries |-> <<>>]}
    ELSE IF Blank(account)
    THEN {[resp |-> Err("account name is required"), queries |-> <<>>]}
    ELSE LET q1 == GetPartitionOfAccountQueries(c)
             sub == GetSubAccountsAndUsers(c, t, account)
             q2 == q1 \o GetSubAccountsAndUsersQueries(c, account)
         IN  UNION {
               IF part.kind = "error"
               THEN {[resp |-> Wrap("unable to find account's partition", part),
                      queries |-> q1]}
               ELSE IF sub.kind = "error"
               THEN {[resp |-> Wrap("unable to find subaccounts or subusers", sub),
                      queries |-> q2]}
               ELSE { LET us == AssociationUsersFrom(c, t, account, names,
                                    [users |-> <<>>, queries |-> q2])
                      IN  IF us.kind = "error"
                          THEN [resp |-> Wrap("unable to find partitions",
                                              [err |-> us.resp.cause]),
                                queries |-> us.queries]
                          ELSE [resp |-> [kind |-> "ok",
                                          tree |-> [Name |-> account,
                                                    Partition |-> part.partition,
                                                    SubAccounts |-> sub.subAccts,
                                                    SubUsers |->
                                                      [i \in 1..Len(us.users) |->
                                                         AssociationUser(us.users[i])]]],
                                queries |-> us.queries]
                      : names \in Orders(sub.subUsers) }
               : part \in GetPartitionOfAccountOutcomes(c, t, account) }

(***************************************************************************)
(* The calls of the tree assemblies and of the lookups, each on a store of *)
(* up to MaxEdges edges.  A client that is not usable meets an empty       *)
(* association table.                                                      *)
(***************************************************************************)
TreeAccounts == {<<"A">>, <<"B">>, <<>>, <<" ">>}
TreeUsers == {<<"u1">>, <<>>, <<" ">>}

InitTree ==
    /\ client \in Clients
    /\ assoc \in SeqsUpTo(TreeRows, IF client = GoodClient THEN MaxEdges ELSE 0)
    /\ acctTable \in AcctTables
    /\ userTable \in UserTables
    /\ req = [op |-> "none"]
    /\ resp = [kind |-> "none"]
    /\ queries = <<>>
    /\ InitCtlIdle
    /\ InitAuxIdle

(***************************************************************************)
(* The calls that send more than one query.  Each sends its queries to the *)
(* store one after the other, outside any transaction, so another party's  *)
(* write to the edge relation can land between two of them.  A step is one *)
(* query with the local work that follows it; asm holds the locals of the  *)
(* call in flight and seen the states the edge relation went through since *)
(* its first query.                                                        *)
(***************************************************************************)
MaxWrites == 2

AsmIdle == [pc |-> "idle"]

\* the locals of a call whose next query is the first pluck of
\* GetSubAccountsAndUsers
AsmStart(kind, handler) ==
    [pc |-> "subAccts", kind |-> kind, handler |-> handler,
     acct |-> Nil, partition |-> <<>>, subAccts |-> {}, names |-> <<>>,
     parents |-> {}, users |-> <<>>, writes |-> 0]

AsmDone == [pc |-> "done"]

\* what the caller receives: a handler turns the result of the client into
\* its response
Answer(handler, r) == IF handler THEN ChildNodesResponse(r) ELSE r

\* the node the assembly returns once its loop over the sub-users is over
TreeOf(a, account) ==
    IF a.kind = "account"
    THEN [Name |-> account,
          Description |-> a.acct.description,
          Organization |-> a.acct.organization,
          SubAccounts |-> a.subAccts,
          SubUsers |-> a.users]
    ELSE [Name |-> account,
          Partition |-> a.partition,
          SubAccounts |-> a.subAccts,
          SubUsers |-> a.users]

\* the call returns with an error
Fail(handler, r) ==
    /\ resp' = Answer(handler, r)
    /\ asm' = AsmDone

\* the call goes on with the locals a, and returns when no sub-user is left
Continue(a) ==
    IF a.pc = "user" /\ a.names = <<>>
    THEN /\ resp' = Answer(a.handler,
                           [kind |-> "ok", tree |-> TreeOf(a, req.account)])
         /\ asm' = AsmDone
    ELSE /\ resp' = resp
         /\ asm' = a

\* GetSubAccountsAndUsers called on its own: its checks and its first pluck
CallGetSubAccountsAndUsers ==
    /\ req.op = "none" /\ asm.pc = "idle"
    /\ \E account \in ArgAccounts :
       LET sub == GetSubAccountsAndUsers(client, assoc, account) IN
        /\ req' = [op |-> "GetSubAccountsAndUsers", account |-> account]
        /\ queries' = IF Usable(client) /\ ~Blank(account)
                      THEN <<AssocQuery>> ELSE <<>>
        /\ IF sub.kind = "error"
           THEN Fail(FALSE, sub)
           ELSE /\ resp' = resp
                /\ asm' = [AsmStart("subs", FALSE) EXCEPT
                              !.pc = "subUsers", !.subAccts = sub.subAccts]
    /\ seen' = {assoc}
    /\ UNCHANGED <<client, assoc, acctTable, userTable, ldap>>
    /\ UNCHANGED ctlVars

\* the checks at the head of an assembly and its first query:
\* c.GetAcctByName(ctx, account) or c.GetPartitionOfAccount(ctx, account)
StartAssembly(opName, kind, handler, account) ==
    /\ req' = [op |-> opName, account |-> account]
    /\ seen' = {assoc}
    /\ IF ~client.ptr \/ ~client.DB
       THEN Fail(handler, Err("nil slurmdb Client")) /\ queries' = <<>>
       ELSE IF Blank(account)
       THEN Fail(handler, Err("account name is required")) /\ queries' = <<>>
       ELSE IF kind = "account"
       THEN LET acct == GetAcctByName(client, acctTable, account) IN
            /\ queries' = GetAcctByNameQueries(client, account)
            /\ IF acct.kind = "error"
               THEN Fail(handler, Wrap("unable to find account", acct))
               ELSE /\ resp' = resp
                    /\ asm' = [AsmStart(kind, handler) EXCEPT
                                  !.acct = acct.row]
       ELSE \E part \in GetPartitionOfAccountOutcomes(client, assoc, account) :
            /\ queries' = GetPartitionOfAccountQueries(client)
            /\ IF part.kind # "ok"
               THEN Fail(handler,
                         Wrap("unable to find account's partition", part))
               ELSE /\ resp' = resp
                    /\ asm' = [AsmStart(kind, handler) EXCEPT
                                  !.partition = part.partition]

CallAssembly(opName, kind) ==
    /\ req.op = "none" /\ asm.pc = "idle"
    /\ \E account \in TreeAccounts :
          StartAssembly(opName, kind, FALSE, account)
    /\ UNCHANGED <<client, assoc, acctTable, userTable, ldap>>
    /\ UNCHANGED ctlVars

CallGetChildNodesOfAccount ==
    CallAssembly("GetChildNodesOfAccount", "account")

CallGetAssociationChildNodesOfAccount ==
    CallAssembly("GetAssociationChildNodesOfAccount", "association")

CallGetAssociationTree ==
    CallAssembly("GetAssociationTree", "tree")

\* the response of a handler that returns before it calls the client
Refuse(opName, account, status, detail) ==
    /\ req' = [op |-> opName, account |-> account]
    /\ resp' = [kind |-> "http", status |-> status, detail |-> detail]
    /\ queries' = <<>>
    /\ asm' = AsmDone
    /\ seen' = {assoc}

\* GET /account/:name/childnodes
RequestChildNodesOfAccount ==
    /\ req.op = "none" /\ asm.pc = "idle"
    /\ \E account \in TreeAccounts :
          IF ~client.ptr
          THEN Refuse("HandlerChildNodesOfAccount", account, 500,
                      <<"slurmdb client not initialized">>)
          ELSE IF account = <<>>
          THEN Refuse("HandlerChildNodesOfAccount", account, 400,
                      <<"missing account parameter">>)
          ELSE StartAssembly("HandlerChildNodesOfAccount", "account", TRUE,
                             account)
    /\ UNCHANGED <<client, assoc, acctTable, userTable, ldap>>
    /\ UNCHANGED ctlVars

\* GET /association/:account/childnodes
RequestAssociationChildNodesOfAccount ==
    /\ req.op = "none" /\ asm.pc = "idle"
    /\ \E account \in TreeAccounts :
          IF ~client.ptr
          THEN Refuse("HandlerGetAssociationChildNodesOfAccount", account, 500,
                      <<"slurmdb client not initialized">>)
          ELSE IF Blank(account)
          THEN Refuse("HandlerGetAssociationChildNodesOfAccount", account, 400,
                      <<"missing account parameter">>)
          ELSE StartAssembly("HandlerGetAssociationChildNodesOfAccount",
                             "association", TRUE, account)
    /\ UNCHANGED <<client, assoc, acctTable, userTable, ldap>>
    /\ UNCHANGED ctlVars

\* GetSubAccountsAndUsers inside an assembly: its checks and its first pluck
QuerySubAccounts ==
    /\ asm.pc = "subAccts"
    /\ LET sub == GetSubAccountsAndUsers(client, assoc, req.account) IN
       IF sub.kind = "error"
       THEN Fail(asm.handler,
                 Wrap("unable to find subaccounts or subusers", sub))
       ELSE /\ resp' = resp
            /\ asm' = [asm EXCEPT !.pc = "subUsers", !.subAccts = sub.subAccts]
    /\ queries' = queries \o (IF Usable(client) THEN <<AssocQuery>> ELSE <<>>)
    /\ UNCHANGED <<client, assoc, req, acctTable, userTable, seen, ldap>>
    /\ UNCHANGED ctlVars

\* its second pluck: the sub-users, in the order the store delivers them
QuerySubUsers ==
    /\ asm.pc = "subUsers"
    /\ LET sub == GetSubAccountsAndUsers(client, assoc, req.account) IN
       IF asm.kind = "subs"
       THEN /\ resp' = [kind |-> "ok", subAccts |-> asm.subAccts,
                        subUsers |-> sub.subUsers]
            /\ asm' = AsmDone
       ELSE \E names \in Orders(sub.subUsers) :
               Continue([asm EXCEPT !.pc = "user", !.names = names])
    /\ queries' = queries \o <<AssocQuery>>
    /\ UNCHANGED <<client, assoc, req, acctTable, userTable, seen, ldap>>
    /\ UNCHANGED ctlVars

\* GetChildNodesOfAccount, one sub-user: c.GetParentAccountsByUser(ctx, name)
QueryUserParents ==
    /\ asm.pc = "user" /\ asm.kind = "account"
    /\ LET name == Head(asm.names)
           ps == GetParentAccountsByUser(client, assoc, name)
       IN  /\ queries' = queries \o GetParentAccountsByUserQueries(client, name)
           /\ IF ps.kind = "error"
              THEN Fail(asm.handler,
                        Wrap("unable to find user's all parents", ps))
              ELSE /\ resp' = resp
                   /\ asm' = [asm EXCEPT !.pc = "level", !.parents = ps.accts]
    /\ UNCHANGED <<client, assoc, req, acctTable, userTable, seen, ldap>>
    /\ UNCHANGED ctlVars

\* and c.GetUserAdminLevels(ctx, []string{name}), then the UserNode
QueryUserAdminLevel ==
    /\ asm.pc = "level"
    /\ LET name == Head(asm.names)
           al == GetUserAdminLevels(client, userTable, <<name>>)
       IN  /\ queries' = queries \o GetUserAdminLevelsQueries(client, <<name>>)
           /\ IF al.kind = "error"
              THEN Fail(asm.handler,
                        Wrap("unable to find user's admin level", al))
              ELSE Continue([asm EXCEPT
                      !.pc = "user",
                      !.names = Tail(@),
                      !.parents = {},
                      !.users = Append(@,
                         [Name |-> name,
                          AdminLevel |-> AdminLevelOf(al.levels, name),
                          AvailableAccounts |-> asm.parents])])
    /\ UNCHANGED <<client, assoc, req, acctTable, userTable, seen, ldap>>
    /\ UNCHANGED ctlVars

\* the association assemblies, one sub-user:
\* c.GetPartitionsOfUser(ctx, account, name)
QueryUserPartitions ==
    /\ asm.pc = "user" /\ asm.kind \in {"association", "tree"}
    /\ LET name == Head(asm.names)
           ps == GetPartitionsOfUser(client, assoc, req.account, name)
       IN  /\ queries' = queries
                  \o GetPartitionsOfUserQueries(client, req.account, name)
           /\ IF ps.kind = "error"
              THEN Fail(asm.handler,
                        Wrap(IF asm.kind = "tree"
                             THEN "unable to find partitions"
                             ELSE "unable to find partitions for user", ps))
              ELSE Continue([asm EXCEPT
                      !.names = Tail(@),
                      !.users = Append(@,
                         IF asm.kind = "tree"
                         THEN AssociationUser([Name |-> name,
                                               Partitions |-> ps.parts])
                         ELSE [Name |-> name, Partitions |-> ps.parts])])
    /\ UNCHANGED <<client, assoc, req, acctTable, userTable, seen, ldap>>
    /\ UNCHANGED ctlVars

\* another party of the store marks an edge deleted or restores it while
\* the call is between two queries
StoreWrite ==
    /\ asm.pc \notin {"idle", "done"}
    /\ asm.writes < MaxWrites
    /\ \E i \in 1..Len(assoc) :
          assoc' = [assoc EXCEPT ![i].deleted = 1 - @]
    /\ seen' = seen \cup {assoc'}
    /\ asm' = [asm EXCEPT !.writes = @ + 1]
    /\ UNCHANGED <<client, req, resp, acctTable, userTable, queries, ldap>>
    /\ UNCHANGED ctlVars

CallGetParentAccountsByUser ==
    /\ req.op = "none"
    /\ \E username \in TreeUsers :
        /\ req' = [op |-> "GetParentAccountsByUser", username |-> username]
        /\ resp' = GetParentAccountsByUser(client, assoc, username)
        /\ queries' = GetParentAccountsByUserQueries(client, username)
    /\ UNCHANGED <<client, assoc, acctTable, userTable>>
    /\ UNCHANGED ctlVars
    /\ UNCHANGED auxVars

CallGetPartitionsOfUser ==
    /\ req.op = "none"
    /\ \E account \in TreeAccounts, user \in TreeUsers :
        /\ req' = [op |-> "GetPartitionsOfUser", account |-> account,
                   user |-> user]
        /\ resp' = GetPartitionsOfUser(client, assoc, account, user)
        /\ queries' = GetPartitionsOfUserQueries(client, account, user)
    /\ UNCHANGED <<client, assoc, acctTable, userTable>>
    /\ UNCHANGED ctlVars
    /\ UNCHANGED auxVars

CallGetAssociation ==
    /\ req.op = "none"
    /\ \E account \in TreeAccounts, user \in {<<>>, <<"u1">>},
          partition \in {<<>>, <<"p1">>} :
        /\ req' = [op |-> "GetAssociation", account |-> account,
                   user |-> user, partition |-> partition]
        /\ resp' = GetAssociation(client, assoc, account, user, partition)
        /\ queries' = GetAssociationQueries(client)
    /\ UNCHANGED <<client, assoc, acctTable, userTable>>
    /\ UNCHANGED ctlVars
    /\ UNCHANGED auxVars

CallGetUserAdminLevels ==
    /\ req.op = "none"
    /\ \E usernames \in {<<>>, << <<"u1">> >>, << <<"u1">>, <<"u2">> >>,
                          << <<>>, <<"u2">>, <<"u2">> >>} :
        /\ req' = [op |-> "GetUserAdminLevels", usernames |-> usernames]
        /\ resp' = GetUserAdminLevels(client, userTable, usernames)
        /\ queries' = GetUserAdminLevelsQueries(client, usernames)
    /\ UNCHANGED <<client, assoc, acctTable, userTable>>
    /\ UNCHANGED ctlVars
    /\ UNCHANGED auxVars

NextDb ==
    \/ CallFindAssociationOne
    \/ RequestAssociationsDetail
    \/ CallGetSubAccountsAndUsers
    \/ QuerySubUsers
    \/ StoreWrite
    \/ CallGetPartitionOfAccount

SpecDb == InitDb /\ [][NextDb]_vars

NextTree ==
    \/ CallGetChildNodesOfAccount
    \/ CallGetAssociationChildNodesOfAccount
    \/ CallGetAssociationTree
    \/ RequestChildNodesOfAccount
    \/ RequestAssociationChildNodesOfAccount
    \/ CallGetSubAccountsAndUsers
    \/ QuerySubAccounts
    \/ QuerySubUsers
    \/ QueryUserParents
    \/ QueryUserAdminLevel
    \/ QueryUserPartitions
    \/ StoreWrite
    \/ CallGetParentAccountsByUser
    \/ CallGetPartitionsOfUser
    \/ CallGetAssociation
    \/ CallGetUserAdminLevels
    \/ CallFindAssociationOne
    \/ CallGetPartitionOfAccount

SpecTree == InitTree /\ [][NextTree]_vars

(***************************************************************************)
(* The paginated listing handlers of the scheduling module and             *)
(* PagingQuery.  An int is a 64-bit two's complement value, kept as its 8  *)
(* bytes, least significant first, so that (Page - 1) * PageSize wraps as  *)
(* it does in the program.                                                 *)
(***************************************************************************)
MaxTotal == 3

DefaultPage == 1
DefaultSize == 20
MaxPageSize == 100

ZeroW == <<0, 0, 0, 0, 0, 0, 0, 0>>
MinusOneW == <<255, 255, 255, 255, 255, 255, 255, 255>>

\* the int of a small natural number
RECURSIVE BytesFrom(_, _)
BytesFrom(n, k) ==
    IF k = 0 THEN <<>> ELSE <<n % 256>> \o BytesFrom(n \div 256, k - 1)

IntOf(n) == BytesFrom(n, 8)

IsNegW(w) == w[8] >= 128

RECURSIVE AddFrom(_, _, _, _)
AddFrom(a, b, i, carry) ==
    IF i > 8 THEN <<>>
    ELSE LET s == a[i] + b[i] + carry
         IN  <<s % 256>> \o AddFrom(a, b, i + 1, s \div 256)

\* a + b, a - b and a * b of the program, modulo 2^64
AddW(a, b) == AddFrom(a, b, 1, 0)

NegW(a) == AddW([i \in 1..8 |-> 255 - a[i]], IntOf(1))

SubW(a, b) == AddW(a, NegW(b))

RECURSIVE MulByteFrom(_, _, _, _)
MulByteFrom(a, d, i, carry) ==
    IF i > 8 THEN <<>>
    ELSE LET s == a[i] * d + carry
         IN  <<s % 256>> \o MulByteFrom(a, d, i + 1, s \div 256)

\* a shifted left by k bytes
ShiftW(a, k) == [i \in 1..8 |-> IF i <= k THEN 0 ELSE a[i - k]]

RECURSIVE MulFrom(_, _, _)
MulFrom(a, b, j) ==
    IF j > 8 THEN ZeroW
    ELSE AddW(ShiftW(MulByteFrom(a, b[j], 1, 0), j - 1), MulFrom(a, b, j + 1))

MulW(a, b) == MulFrom(a, b, 1)

\* a < b on the unsigned values of the bytes
UnsignedLess(a, b) ==
    \E i \in 1..8 : a[i] < b[i] /\ \A j \in (i + 1)..8 : a[j] = b[j]

\* a < b, a <= b and a > b of the program (signed)
LessW(a, b) ==
    IF IsNegW(a) # IsNegW(b) THEN IsNegW(a) ELSE UnsignedLess(a, b)

LeqW(a, b) == a = b \/ LessW(a, b)

GreaterW(a, b) == LessW(b, a)

\* the natural number of an int between 0 and 2^24 - 1
SmallOf(w) == w[1] + 256 * w[2] + 65536 * w[3]

IsSmallW(w) == \A i \in 4..8 : w[i] = 0

\* PagingQuery.SetDefaults
SetDefaults(p, defaultPage, defaultSize, maxSize) ==
    LET page == IF LeqW(p.Page, ZeroW) THEN defaultPage ELSE p.Page
        size == IF LeqW(p.PageSize, ZeroW) THEN defaultSize ELSE p.PageSize
    IN  [Page |-> page,
         PageSize |-> IF GreaterW(maxSize, ZeroW) /\ GreaterW(size, maxSize)
                      THEN maxSize ELSE size]

\* PagingQuery.Offset
Offset(p) ==
    IF LeqW(p.Page, IntOf(1)) THEN ZeroW
    ELSE MulW(SubW(p.Page, IntOf(1)), p.PageSize)

\* PagingQuery.Limit
Limit(p) == p.PageSize

\* PagingQuery.Validate: the tags omitempty,gte=1 of Page and
\* omitempty,gte=1,lte=1000 of PageSize
Validate(p) ==
    /\ (p.Page = ZeroW \/ LeqW(IntOf(1), p.Page))
    /\ (p.PageSize = ZeroW
          \/ (LeqW(IntOf(1), p.PageSize) /\ LeqW(p.PageSize, IntOf(1000))))

\* list[start:end] of a list whose length and capacity are Len(list): the
\* program panics unless 0 <= start <= end <= Len(list)
Slice(list, start, end) ==
    IF /\ LeqW(ZeroW, start) /\ LeqW(start, end)
       /\ LeqW(end, IntOf(Len(list)))
    THEN [kind |-> "ok", items |-> SubSeq(list, SmallOf(start) + 1, SmallOf(end))]
    ELSE [kind |-> "panic"]

\* the paging block the three handlers share: the body of `if paging`.  The
\* page links of the response are left out.
PagedResponse(list, pq0) ==
    LET pq == SetDefaults(pq0, IntOf(DefaultPage), IntOf(DefaultSize),
                          IntOf(MaxPageSize))
        total == IntOf(Len(list))
        start0 == Offset(pq)
        start == IF GreaterW(start0, total) THEN total ELSE start0
        end0 == AddW(start, Limit(pq))
        end == IF GreaterW(end0, total) THEN total ELSE end0
        pageSlice == Slice(list, start, end)
    IN  IF ~Validate(pq)
        THEN [kind |-> "http", status |-> 400,
              detail |-> <<"invalid paging parameters">>]
        ELSE IF pageSlice.kind = "panic"
        THEN [kind |-> "panic", detail |-> "slice bounds out of range",
              start |-> start, end |-> end]
        ELSE [kind |-> "http", status |-> 200, count |-> Len(list),
              start |-> start, end |-> end, results |-> pageSlice.items]

\* a listing handler from the list it pages on: paging is the value of the
\* paging switch
ListingResponse(list, paging, pq0) ==
    IF paging THEN PagedResponse(list, pq0)
    ELSE [kind |-> "http", status |-> 200, count |-> Len(list),
          results |-> list]

\* the response of a listing handler that found no client or whose client
\* returned an error
ListingFailure(set, r) ==
    IF ~set
    THEN [kind |-> "http", status |-> 500,
          detail |-> <<"slurmclt client not initialized">>]
    ELSE [kind |-> "http", status |-> 500, detail |-> r.err]

\* the bytes of the characters of a name, in increasing order
ByteOrder == Digits \o UpperLetters \o LowerLetters

ByteOf(c) == CHOOSE i \in 1..Len(ByteOrder) : ByteOrder[i] = c

\* a < b for two Go strings: byte by byte, a proper prefix first
RECURSIVE StringLess(_, _)
StringLess(a, b) ==
    IF b = <<>> THEN FALSE
    ELSE IF a = <<>> THEN TRUE
    ELSE IF Head(a) = Head(b) THEN StringLess(Tail(a), Tail(b))
    ELSE ByteOf(Head(a)) < ByteOf(Head(b))

RECURSIVE InsertString(_, _)
InsertString(k, sorted) ==
    IF sorted = <<>> THEN <<k>>
    ELSE IF StringLess(k, Head(sorted)) THEN <<k>> \o sorted
    ELSE <<Head(sorted)>> \o InsertString(k, Tail(sorted))

\* sort.Strings(keys)
RECURSIVE SortStrings(_)
SortStrings(keys) ==
    IF keys = <<>> THEN <<>>
    ELSE InsertString(Head(keys), SortStrings(Tail(keys)))

\* the list HandlerGetAllNodes pages on: the nodes of the map in the order
\* of their names, keys being the names as the range over the map gave them
NodeList(nodesMap, keys) ==
    LET sorted == SortStrings(keys) IN
    [i \in 1..Len(sorted) |-> nodesMap[sorted[i]]]

\* the names of the nodes, character by character
NodeNames ==
    {<<"n", "1">>, <<"n", "2">>, <<"n", "1", "0">>, <<"N", "2">>}

\* the maps of up to MaxTotal nodes GetNodes returns, and its failure
NodesResults ==
    {[kind |-> "ok", nodes |-> [k \in S |-> [Name |-> k]]] :
        S \in {T \in SUBSET NodeNames : Cardinality(T) <= MaxTotal}}
    \cup {Err(ExecFailedMessage("GetNodes", <<>>, <<>>))}

\* the values of the partiton parameter of the query
PartitonParams == {<<>>, <<"p", "1">>, <<" ", "p", "1", " ">>, <<" ">>}

\* the arguments GetNodes hands to sinfo
SinfoArgs(condPartition) ==
    << <<"-h">>, <<"-N">> >>
    \o (IF condPartition # <<>> THEN << <<"-p">>, condPartition >> ELSE <<>>)
    \o << <<"-o">>, <<"%N %P %t %m %c %X %Y %Z %G">> >>

\* the lists of up to MaxTotal entries GetJobs and GetPartitions return, and
\* their failure
ListingResults(o) ==
    {[kind |-> "ok", list |-> [i \in 1..n |-> i]] : n \in 0..MaxTotal}
    \cup {Err(ExecFailedMessage(o, path, <<>>)) : path \in ScontrolPaths}

\* page and page_size as bound from the query: absent (0), small, negative,
\* above the cap, and pages whose offset leaves the 64-bit range: 2^61 + 1
\* and 2^62 + 1, 2^63 - 1
PageSamples ==
    { ZeroW, IntOf(1), IntOf(2), IntOf(3), IntOf(4),
      <<1, 0, 0, 0, 0, 0, 0, 32>>,
      <<1, 0, 0, 0, 0, 0, 0, 64>>,
      <<255, 255, 255, 255, 255, 255, 255, 127>> }

PageSizeSamples ==
    { ZeroW, IntOf(1), IntOf(2), IntOf(4), IntOf(100), IntOf(101),
      IntOf(1001), MinusOneW, <<0, 0, 0, 0, 0, 0, 0, 128>> }

PagingQueries == [Page : PageSamples, PageSize : PageSizeSamples]

InitPage ==
    /\ InitCtlIdle
    /\ InitDbIdle

HandlerGetAllNodes ==
    /\ req.op = "none"
    /\ \E set \in BOOLEAN, partiton \in PartitonParams, r \in NodesResults,
          paging \in BOOLEAN, pq \in PagingQueries :
        IF ~set
        THEN /\ req' = [op |-> "HandlerGetAllNodes", client |-> FALSE]
             /\ resp' = ListingFailure(set, r)
        ELSE /\ req' = [op |-> "HandlerGetAllNodes", client |-> TRUE,
                        args |-> SinfoArgs(TrimSpace(partiton)),
                        result |-> r, paging |-> paging, pq |-> pq]
             /\ IF r.kind = "error"
                THEN resp' = ListingFailure(set, r)
                ELSE \E keys \in Orders(DOMAIN r.nodes) :
                        resp' = ListingResponse(NodeList(r.nodes, keys),
                                                paging, pq)
    /\ UNCHANGED <<client, assoc, acctTable, userTable, queries>>
    /\ UNCHANGED ctlVars
    /\ UNCHANGED auxVars

\* HandlerGetAllJobs and HandlerGetAllPartitions page on the list as the
\* client returned it
HandlerListing(opName, method) ==
    /\ req.op = "none"
    /\ \E set \in BOOLEAN, r \in ListingResults(method),
          paging \in BOOLEAN, pq \in PagingQueries :
        IF ~set
        THEN /\ req' = [op |-> opName, client |-> FALSE]
             /\ resp' = ListingFailure(set, r)
        ELSE /\ req' = [op |-> opName, client |-> TRUE, result |-> r,
                        paging |-> paging, pq |-> pq]
             /\ resp' = IF r.kind = "error"
                        THEN ListingFailure(set, r)
                        ELSE ListingResponse(r.list, paging, pq)
    /\ UNCHANGED <<client, assoc, acctTable, userTable, queries>>
    /\ UNCHANGED ctlVars
    /\ UNCHANGED auxVars

HandlerGetAllJobs == HandlerListing("HandlerGetAllJobs", "GetJobs")

HandlerGetAllPartitions ==
    HandlerListing("HandlerGetAllPartitions", "GetPartitions")

NextPage ==
    \/ HandlerGetAllNodes
    \/ HandlerGetAllJobs
    \/ HandlerGetAllPartitions

SpecPage == InitPage /\ [][NextPage]_vars

(***************************************************************************)
(* The group routes of the directory module.  ldap.entries maps the cn of  *)
(* each entry under ou=Groups,<BaseDN> to its attributes, an attribute     *)
(* being the sequence of its values.  The names used hold no character     *)
(* that EscapeFilter or EscapeDN rewrites.  Every request runs on its own  *)
(* goroutine and each call on the connection is one round trip to the      *)
(* directory, which has other clients as well: ldap.calls holds the locals *)
(* of up to MaxRequests requests, and a step is one round trip with the    *)
(* local work before and after it.                                         *)
(***************************************************************************)
MaxRequests == 2

\* attribute names and object classes, character by character
CnAttr == <<"c", "n">>
DnAttr == <<"d", "n">>
ObjectClassAttr == <<"o", "b", "j", "e", "c", "t", "C", "l", "a", "s", "s">>
GidNumberAttr == <<"g", "i", "d", "N", "u", "m", "b", "e", "r">>
MemberUidAttr == <<"m", "e", "m", "b", "e", "r", "U", "i", "d">>
PosixGroup == <<"p", "o", "s", "i", "x", "G", "r", "o", "u", "p">>
Top == <<"t", "o", "p">>

GroupEntries ==
    { [cn |-> <<"g1">>,
       attrs |-> [a \in {CnAttr, GidNumberAttr, MemberUidAttr} |->
                    CASE a = CnAttr -> << <<"g1">> >>
                      [] a = GidNumberAttr -> << <<"1001">> >>
                      [] a = MemberUidAttr -> << <<"u1">>, <<"u2">> >>]],
      [cn |-> <<"g2">>,
       attrs |-> [a \in {CnAttr, GidNumberAttr} |->
                    CASE a = CnAttr -> << <<"g2">> >>
                      [] a = GidNumberAttr -> << <<"1002">> >>]] }

\* the directory that holds the entries of G
DirectoryOf(G) ==
    [n \in {g.cn : g \in G} |-> (CHOOSE g \in G : g.cn = n).attrs]

LdapClients ==
    { [ptr |-> FALSE, Conn |-> FALSE],
      [ptr |-> TRUE, Conn |-> FALSE],
      [ptr |-> TRUE, Conn |-> TRUE] }

\* the :cn path parameters requested
CnParams == {<<"g1">>, <<" ", "g2">>, <<"g9">>, <<" ">>}

\* a map without one of its keys
DropKey(m, k) == [x \in (DOMAIN m) \ {k} |-> m[x]]

\* GetGroup: the attributes of the entry found, each with its values joined
\* by ","; nil when no entry matches; searchFails is whether Conn.Search
\* returned an error
GetGroup(l, cn0, searchFails) ==
    LET cn == TrimSpace(cn0) IN
    IF ~l.ptr \/ ~l.Conn THEN Err(<<"nil ldap client or connection">>)
    ELSE IF cn = <<>> THEN Err(<<"cn is required">>)
    ELSE IF searchFails THEN Err(<<"ldap search error">>)
    ELSE IF cn \notin DOMAIN l.entries THEN [kind |-> "nil"]
    ELSE [kind |-> "ok",
          attrs |-> [a \in DOMAIN l.entries[cn] |->
                        Join(l.entries[cn][a], <<",">>)]]

\* DelGroup: the entry is removed unless Conn.Del returned an error, as it
\* does for an entry the directory does not hold
DelGroup(l, cn0, delFails) ==
    LET cn == TrimSpace(cn0) IN
    IF ~l.ptr \/ ~l.Conn
    THEN [err |-> Err(<<"nil ldap client or connection">>), ldap |-> l]
    ELSE IF cn = <<>> THEN [err |-> Err(<<"cn is required">>), ldap |-> l]
    ELSE IF delFails \/ cn \notin DOMAIN l.entries
    THEN [err |-> Err(<<"ldap delete error">>), ldap |-> l]
    ELSE [err |-> NilError,
          ldap |-> [l EXCEPT !.entries = DropKey(l.entries, cn)]]

\* toVals of AddGroup and UpdateGroup: the values between the commas,
\* trimmed, the empty ones dropped
toVals(s) ==
    IF TrimSpace(s) = <<>> THEN <<>>
    ELSE LET pieces == Split(TrimSpace(s), ",") IN
         SelectSeq([i \in 1..Len(pieces) |-> TrimSpace(pieces[i])],
                   LAMBDA p : p # <<>>)

\* strings.EqualFold on the letters of the names used
EqualFold(a, b) == ToUpper(a) = ToUpper(b)

\* the normalized attributes of AddGroup, keys being the names of attr in
\* the order the range over the map gave them
RECURSIVE NormalizeFrom(_, _, _)
NormalizeFrom(attr, keys, acc) ==
    IF keys = <<>> THEN acc
    ELSE LET key == TrimSpace(Head(keys))
             vals == toVals(attr[Head(keys)])
         IN  NormalizeFrom(attr, Tail(keys),
                 IF key = <<>> \/ EqualFold(key, DnAttr) \/ vals = <<>>
                 THEN acc
                 ELSE PutKey(acc, key, vals))

\* the attributes of the add request AddGroup sends for cn
AddAttributes(cn, attr, keys) ==
    LET n0 == NormalizeFrom(attr, keys, <<>>)
        n1 == IF CnAttr \in DOMAIN n0
              THEN IF cn \in Range(n0[CnAttr]) THEN n0
                   ELSE PutKey(n0, CnAttr, Append(n0[CnAttr], cn))
              ELSE PutKey(n0, CnAttr, <<cn>>)
        ocSet == (IF ObjectClassAttr \in DOMAIN n1
                  THEN Range(n1[ObjectClassAttr]) ELSE {}) \cup {PosixGroup}
        ocs == SortStrings(CHOOSE s \in Orders(ocSet) : TRUE)
    IN  PutKey(n1, ObjectClassAttr, ocs)

\* AddGroup: the entry is added unless Conn.Add returned an error, as it
\* does for an entry the directory already holds
AddGroup(l, cn0, attr, keys, addFails) ==
    LET cn == TrimSpace(cn0) IN
    IF ~l.ptr \/ ~l.Conn
    THEN [err |-> Err(<<"nil ldap client or connection">>), ldap |-> l]
    ELSE IF cn = <<>> THEN [err |-> Err(<<"cn is required">>), ldap |-> l]
    ELSE IF addFails \/ cn \in DOMAIN l.entries
    THEN [err |-> Err(<<"ldap add error">>), ldap |-> l]
    ELSE [err |-> NilError,
          ldap |-> [l EXCEPT !.entries =
                      PutKey(l.entries, cn, AddAttributes(cn, attr, keys))]]

\* the changes of the modify request UpdateGroup builds
RECURSIVE ChangesFrom(_, _)
ChangesFrom(attr, keys) ==
    IF keys = <<>> THEN <<>>
    ELSE LET key == TrimSpace(Head(keys))
             vals == toVals(attr[Head(keys)])
         IN  (IF key = <<>> \/ ToLower(key) \in {CnAttr, ToLower(ObjectClassAttr)}
              THEN <<>>
              ELSE IF vals = <<>>
              THEN <<[op |-> "delete", key |-> key]>>
              ELSE <<[op |-> "replace", key |-> key, vals |-> vals]>>)
             \o ChangesFrom(attr, Tail(keys))

\* the entry after the changes, in their order; a delete of an attribute
\* the entry does not have makes the directory refuse the request
RECURSIVE ApplyChanges(_, _)
ApplyChanges(entry, changes) ==
    IF changes = <<>> THEN [kind |-> "ok", entry |-> entry]
    ELSE LET ch == Head(changes) IN
         IF ch.op = "replace"
         THEN ApplyChanges(PutKey(entry, ch.key, ch.vals), Tail(changes))
         ELSE IF ch.key \notin DOMAIN entry THEN [kind |-> "refused"]
         ELSE ApplyChanges(DropKey(entry, ch.key), Tail(changes))

\* UpdateGroup: body.kind is "null" for a nil map; with no change to make
\* nothing is sent; Conn.Modify returns an error for an entry the directory
\* does not hold
UpdateGroup(l, cn0, body, keys, modifyFails) ==
    LET cn == TrimSpace(cn0) IN
    IF ~l.ptr \/ ~l.Conn
    THEN [err |-> Err(<<"nil ldap client or connection">>), ldap |-> l]
    ELSE IF cn = <<>> THEN [err |-> Err(<<"cn is required">>), ldap |-> l]
    ELSE IF body.kind = "null"
    THEN [err |-> Err(<<"attributes required">>), ldap |-> l]
    ELSE LET changes == ChangesFrom(body.attrs, keys) IN
         IF changes = <<>> THEN [err |-> NilError, ldap |-> l]
         ELSE IF modifyFails \/ cn \notin DOMAIN l.entries
         THEN [err |-> Err(<<"ldap modify error">>), ldap |-> l]
         ELSE LET after == ApplyChanges(l.entries[cn], changes) IN
              IF after.kind = "refused"
              THEN [err |-> Err(<<"ldap modify error">>), ldap |-> l]
              ELSE [err |-> NilError,
                    ldap |-> [l EXCEPT !.entries[cn] = after.entry]]

\* the JSON bodies sent: one that does not bind, null, and maps of names to
\* comma-separated values
Bodies ==
    { [kind |-> "bad"],
      [kind |-> "null"],
      [kind |-> "ok",
       attrs |-> [k \in {CnAttr, <<" ">> \o GidNumberAttr} |->
                    IF k = CnAttr THEN <<"g9">>
                    ELSE <<"7", ",", " ", "8", ",">>]],
      [kind |-> "ok",
       attrs |-> [k \in {CnAttr, ObjectClassAttr, DnAttr} |->
                    CASE k = CnAttr -> <<" ", "g1">>
                      [] k = ObjectClassAttr -> Top \o <<",">> \o PosixGroup
                      [] k = DnAttr -> <<"x">>]],
      [kind |-> "ok",
       attrs |-> [k \in {MemberUidAttr, CnAttr} |->
                    IF k = MemberUidAttr THEN <<" ">> ELSE <<"zz">>]] }

\* the names of a body in the order the range over the map gives them
KeyOrders(body) ==
    IF body.kind = "ok" THEN Orders(DOMAIN body.attrs) ELSE {<<>>}

Http(status, detail) == [kind |-> "http", status |-> status, detail |-> detail]

CallIdle == [pc |-> "idle"]

InitLdap ==
    /\ InitCtlIdle
    /\ client = [ptr |-> FALSE, DB |-> FALSE, ClusterName |-> <<>>]
    /\ assoc = <<>> /\ req = [op |-> "none"] /\ resp = [kind |-> "none"]
    /\ acctTable = <<>> /\ userTable = <<>> /\ queries = <<>>
    /\ asm = [pc |-> "idle"] /\ seen = {}
    /\ \E c \in LdapClients, G \in SUBSET GroupEntries :
          ldap = [ptr |-> c.ptr, Conn |-> c.Conn, entries |-> DirectoryOf(G),
                  calls |-> [i \in 1..MaxRequests |-> CallIdle]]

\* request i ends with the response r
Respond(i, call, r) ==
    [ldap EXCEPT !.calls[i] = [call EXCEPT !.pc = "done", !.resp = r]]

\* HandlerGetGroup up to the return of client.GetGroup: the search
GetGroupStart(i, method) ==
    /\ ldap.calls[i].pc = "idle"
    /\ \E param \in CnParams, searchFails \in BOOLEAN :
        LET call == [pc |-> "del", op |-> "HandlerGetGroup",
                     method |-> method, cn |-> param,
                     row |-> [kind |-> "nil"], resp |-> [kind |-> "none"]]
            cn == TrimSpace(param)
            row == GetGroup(ldap, cn, searchFails)
        IN  ldap' =
              IF ~ldap.ptr
              THEN Respond(i, call, Http(500, <<"ldap client not initialized">>))
              ELSE IF cn = <<>>
              THEN Respond(i, call, Http(400, <<"missing cn parameter">>))
              ELSE IF row.kind = "error"
              THEN Respond(i, call, Http(500, row.err))
              ELSE IF row.kind = "nil" \/ DOMAIN row.attrs = {}
              THEN Respond(i, call, Http(400, <<"group not found">>))
              ELSE [ldap EXCEPT !.calls[i] = [call EXCEPT !.row = row]]
    /\ UNCHANGED <<client, assoc, req, resp, acctTable, userTable, queries,
                   asm, seen>>
    /\ UNCHANGED ctlVars

\* GET /api/v1/ldap/group/:cn, routed to HandlerGetGroup
GetGroupRequest == \E i \in 1..MaxRequests : GetGroupStart(i, "GET")

\* DELETE /api/v1/ldap/group/:cn, routed to HandlerGetGroup as well
DeleteGroupRequest == \E i \in 1..MaxRequests : GetGroupStart(i, "DELETE")

\* HandlerGetGroup from client.DelGroup on: the delete and the response
GetGroupDelete ==
    /\ \E i \in 1..MaxRequests, delFails \in BOOLEAN :
        /\ ldap.calls[i].pc = "del"
        /\ LET call == ldap.calls[i]
               del == DelGroup(ldap, TrimSpace(call.cn), delFails)
           IN  ldap' =
                 [del.ldap EXCEPT !.calls[i] =
                    [call EXCEPT
                       !.pc = "done",
                       !.resp = IF del.err # NilError
                                THEN Http(500, del.err.err)
                                ELSE [kind |-> "http", status |-> 200,
                                      results |-> call.row.attrs]]]
    /\ UNCHANGED <<client, assoc, req, resp, acctTable, userTable, queries,
                   asm, seen>>
    /\ UNCHANGED ctlVars

\* POST /api/v1/ldap/group: HandlerCreateGroup up to the return of
\* client.AddGroup
CreateGroupRequest ==
    /\ \E i \in 1..MaxRequests, body \in Bodies, addFails \in BOOLEAN :
       \E keys \in KeyOrders(body) :
        /\ ldap.calls[i].pc = "idle"
        /\ LET cn == IF body.kind = "ok" /\ CnAttr \in DOMAIN body.attrs
                     THEN TrimSpace(body.attrs[CnAttr]) ELSE <<>>
               call == [pc |-> "read", op |-> "HandlerCreateGroup",
                        method |-> "POST", cn |-> cn,
                        row |-> [kind |-> "nil"], resp |-> [kind |-> "none"]]
               add == AddGroup(ldap, cn, body.attrs, keys, addFails)
           IN  ldap' =
                 IF ~ldap.ptr
                 THEN Respond(i, call,
                              Http(500, <<"ldap client not initialized">>))
                 ELSE IF body.kind = "bad"
                 THEN Respond(i, call, Http(400, <<"invalid json">>))
                 ELSE IF cn = <<>>
                 THEN Respond(i, call, Http(400, <<"missing cn in payload">>))
                 ELSE IF add.err # NilError
                 THEN Respond(i, call, Http(500, add.err.err))
                 ELSE [add.ldap EXCEPT !.calls[i] = call]
    /\ UNCHANGED <<client, assoc, req, resp, acctTable, userTable, queries,
                   asm, seen>>
    /\ UNCHANGED ctlVars

\* PUT /api/v1/ldap/group/:cn: HandlerUpdateGroup up to the return of
\* client.UpdateGroup
UpdateGroupRequest ==
    /\ \E i \in 1..MaxRequests, param \in CnParams, body \in Bodies,
          modifyFails \in BOOLEAN :
       \E keys \in KeyOrders(body) :
        /\ ldap.calls[i].pc = "idle"
        /\ LET cn == TrimSpace(param)
               call == [pc |-> "read", op |-> "HandlerUpdateGroup",
                        method |-> "PUT", cn |-> cn,
                        row |-> [kind |-> "nil"], resp |-> [kind |-> "none"]]
               upd == UpdateGroup(ldap, cn, body, keys, modifyFails)
           IN  ldap' =
                 IF ~ldap.ptr
                 THEN Respond(i, call,
                              Http(500, <<"ldap client not initialized">>))
                 ELSE IF cn = <<>>
                 THEN Respond(i, call, Http(400, <<"missing cn parameter">>))
                 ELSE IF body.kind = "bad"
                 THEN Respond(i, call, Http(400, <<"invalid json">>))
                 ELSE IF upd.err # NilError
                 THEN Respond(i, call, Http(500, upd.err.err))
                 ELSE [upd.ldap EXCEPT !.calls[i] = call]
    /\ UNCHANGED <<client, assoc, req, resp, acctTable, userTable, queries,
                   asm, seen>>
    /\ UNCHANGED ctlVars

\* both handlers from their client.GetGroup on: the entry is read back and
\* returned, nil when the search finds none
ReadBackGroup ==
    /\ \E i \in 1..MaxRequests, searchFails \in BOOLEAN :
        /\ ldap.calls[i].pc = "read"
        /\ LET call == ldap.calls[i]
               row == GetGroup(ldap, call.cn, searchFails)
           IN  ldap' =
                 IF row.kind = "error"
                 THEN Respond(i, call, Http(500, row.err))
                 ELSE Respond(i, [call EXCEPT !.row = row],
                              [kind |-> "http", status |-> 200,
                               results |-> IF row.kind = "nil" THEN "null"
                                           ELSE row.attrs])
    /\ UNCHANGED <<client, assoc, req, resp, acctTable, userTable, queries,
                   asm, seen>>
    /\ UNCHANGED ctlVars

\* another client of the directory adds or removes a group
DirectoryWrite ==
    /\ \E g \in GroupEntries :
          ldap' = [ldap EXCEPT !.entries =
                     IF g.cn \in DOMAIN @ THEN DropKey(@, g.cn)
                     ELSE PutKey(@, g.cn, g.attrs)]
    /\ UNCHANGED <<client, assoc, req, resp, acctTable, userTable, queries,
                   asm, seen>>
    /\ UNCHANGED ctlVars

NextLdap ==
    \/ GetGroupRequest
    \/ DeleteGroupRequest
    \/ GetGroupDelete
    \/ CreateGroupRequest
    \/ UpdateGroupRequest
    \/ ReadBackGroup
    \/ DirectoryWrite

SpecLdap == InitLdap /\ [][NextLdap]_vars

(***************************************************************************)
(* The read-only guard New installs on the *gorm.DB of a Client.  A call   *)
(* on c.DB runs the callbacks of one processor of the ORM: Create, Save    *)
(* run "create", Update(s) "update", Delete "delete", Exec "raw", the      *)
(* finishers Scan, Rows and Row of a Raw statement "row", and Find, First, *)
(* Pluck, Count "query".  A statement is a sequence of characters; the     *)
(* store is the acct_table.                                                *)
(***************************************************************************)
\* strings.HasPrefix
HasPrefix(s, prefix) ==
    Len(s) >= Len(prefix) /\ SubSeq(s, 1, Len(prefix)) = prefix

ReadPrefixes ==
    { <<"S", "E", "L", "E", "C", "T">>, <<"S", "H", "O", "W">>,
      <<"D", "E", "S", "C", "R", "I", "B", "E">>,
      <<"E", "X", "P", "L", "A", "I", "N">> }

\* the callbacks enforceReadOnly registers: `block` before gorm:create,
\* gorm:update and gorm:delete, the prefix test before gorm:raw, and none
\* on the row and query processors.  The result is the error added to the
\* statement, or nil.
enforceReadOnly(processor, sql) ==
    IF processor \in {"create", "update", "delete"}
    THEN Err("slurmdb Client is read-only")
    ELSE IF processor = "raw"
    THEN IF \E p \in ReadPrefixes : HasPrefix(ToUpper(TrimSpace(sql)), p)
         THEN NilError
         ELSE Err("read-only: raw SQL must be SELECT/SHOW/DESCRIBE/EXPLAIN")
    ELSE NilError

\* the first word of a statement as the store reads it, in upper case
Verb(sql) ==
    LET f == Fields(sql) IN IF f = <<>> THEN <<>> ELSE ToUpper(f[1])

\* the table after the store has executed a statement
Executed(sql, table) ==
    CASE Verb(sql) = <<"D", "E", "L", "E", "T", "E">> -> <<>>
      [] Verb(sql) = <<"U", "P", "D", "A", "T", "E">>
           -> [i \in 1..Len(table) |-> [table[i] EXCEPT !.deleted = 1]]
      [] Verb(sql) = <<"I", "N", "S", "E", "R", "T">>
           -> IF \E i \in 1..Len(table) : table[i].name = <<"C">> THEN table
              ELSE Append(table, [name |-> <<"C">>, description |-> "dC",
                                  organization |-> "oC", deleted |-> 0])
      [] OTHER -> table

\* a call on c.DB: the callbacks of its processor run, and the callback
\* that sends the statement to the store does so when no error was added
DBCall(processor, sql, table) ==
    LET err == enforceReadOnly(processor, sql) IN
    IF err # NilError THEN [resp |-> err, table |-> table]
    ELSE [resp |-> [kind |-> "ok"], table |-> Executed(sql, table)]

RawStatements ==
    {
      <<"S", "E", "L", "E", "C", "T", " ", "1">>,
      <<" ", "s", "e", "l", "e", "c", "t", " ", "1">>,
      <<"S", "H", "O", "W", " ", "T", "A", "B", "L", "E", "S">>,
      <<"d", "e", "s", "c", "r", "i", "b", "e", " ", "a", "c", "c", "t",
        "_", "t", "a", "b", "l", "e">>,
      <<"E", "X", "P", "L", "A", "I", "N", " ", "S", "E", "L", "E", "C",
        "T", " ", "1">>,
      <<"D", "E", "L", "E", "T", "E", " ", "F", "R", "O", "M", " ", "a",
        "c", "c", "t", "_", "t", "a", "b", "l", "e">>,
      <<"\t", "d", "e", "l", "e", "t", "e", " ", "f", "r", "o", "m", " ",
        "a", "c", "c", "t", "_", "t", "a", "b", "l", "e">>,
      <<"U", "P", "D", "A", "T", "E", " ", "a", "c", "c", "t", "_", "t",
        "a", "b", "l", "e", " ", "S", "E", "T", " ", "d", "e", "l", "e",
        "t", "e", "d", "=", "1">>,
      <<"I", "N", "S", "E", "R", "T", " ", "I", "N", "T", "O", " ", "a",
        "c", "c", "t", "_", "t", "a", "b", "l", "e", " ", "(", "n", "a",
        "m", "e", ")", " ", "V", "A", "L", "U", "E", "S", " ", "(", "'",
        "C", "'", ")">>,
      <<"W", "I", "T", "H", " ", "x", " ", "A", "S", " ", "(", "S", "E",
        "L", "E", "C", "T", " ", "1", ")", " ", "S", "E", "L", "E", "C",
        "T", " ", "*", " ", "F", "R", "O", "M", " ", "x">> }

\* the statements the ORM builds for Create, Updates and Delete of a record
InsertStatement == <<"I", "N", "S", "E", "R", "T">>
UpdateStatement == <<"U", "P", "D", "A", "T", "E">>
DeleteStatement == <<"D", "E", "L", "E", "T", "E">>
SelectStatement == <<"S", "E", "L", "E", "C", "T">>

InitRO ==
    /\ InitCtlIdle
    /\ client = GoodClient
    /\ assoc = <<>> /\ userTable = <<>> /\ queries = <<>>
    /\ acctTable \in AcctTables
    /\ req = [op |-> "none"] /\ resp = [kind |-> "none"]
    /\ InitAuxIdle

\* the call named opName, running the callbacks of processor on sql
Issue(opName, processor, sql) ==
    LET r == DBCall(processor, sql, acctTable) IN
    /\ req' = [op |-> opName, sql |-> sql]
    /\ resp' = r.resp
    /\ acctTable' = r.table
    /\ UNCHANGED <<client, assoc, userTable, queries>>
    /\ UNCHANGED ctlVars
    /\ UNCHANGED auxVars

\* c.DB.Create(&row)
DBCreate == Issue("Create", "create", InsertStatement)

\* c.DB.Model(&row).Updates(...)
DBUpdates == Issue("Updates", "update", UpdateStatement)

\* c.DB.Delete(&row)
DBDelete == Issue("Delete", "delete", DeleteStatement)

\* c.DB.Find(&rows)
DBFind == Issue("Find", "query", SelectStatement)

\* c.DB.Exec(sql)
DBExec == \E sql \in RawStatements : Issue("Exec", "raw", sql)

\* c.DB.Raw(sql).Scan(&dest)
DBRawScan == \E sql \in RawStatements : Issue("Raw.Scan", "row", sql)

NextRO ==
    \/ DBCreate
    \/ DBUpdates
    \/ DBDelete
    \/ DBFind
    \/ DBExec
    \/ DBRawScan

SpecRO == InitRO /\ [][NextRO]_vars

(***************************************************************************)
(* Properties of the association-graph resolver (checked under SpecDb).    *)
(***************************************************************************)
A == <<"A">>
B == <<"B">>
C == <<"C">>
u1 == <<"u1">>
p1 == <<"p1">>
p2 == <<"p2">>

\* an optional lookup filter constrains the lookup when it is supplied
Supplied(f) == f # Nil /\ ~Blank(f[1])

\* the positions of the non-deleted rows a lookup (account, optional user,
\* optional partition) is about
LookupMatches(account, user, partition) ==
    {i \in 1..Len(assoc) :
        /\ assoc[i].deleted = 0
        /\ assoc[i].acct = account
        /\ (Supplied(user) => assoc[i].user = user[1])
        /\ (Supplied(partition) => assoc[i].partition = partition[1])}

\* C1: FindAssociationOne has three outcomes fixed by the number of matching
\* non-deleted rows: none gives the not-found error, exactly one gives that
\* row, two or more give ErrMultipleAssociations and never a row.
C1_FindAssociationOneOutcomes ==
    (req.op = "FindAssociationOne" /\ client = GoodClient /\ ~Blank(req.account))
    => LET M == LookupMatches(req.account, req.user, req.partition) IN
       /\ Cardinality(M) = 0 => resp = Err(ErrRecordNotFound)
       /\ Cardinality(M) = 1
            => resp = [kind |-> "row", row |-> assoc[CHOOSE i \in M : TRUE]]
       /\ Cardinality(M) >= 2
            => resp = Err(ErrMultipleAssociations) /\ resp.kind # "row"

\* edges {(A,u1,p1), (A,u1,p2)}, lookup account=A, user=u1, no partition
C1_Witness ==
    /\ req.op = "FindAssociationOne"
    /\ client = GoodClient
    /\ Len(assoc) = 2
    /\ assoc[1] = [acct |-> A, user |-> u1, partition |-> p1,
                   parent_acct |-> <<>>, deleted |-> 0]
    /\ assoc[2] = [acct |-> A, user |-> u1, partition |-> p2,
                   parent_acct |-> <<>>, deleted |-> 0]
    /\ req.account = A /\ req.user = Ptr(u1) /\ req.partition = Nil
    /\ resp = Err(ErrMultipleAssociations)

\* no two rows of the store share (acct, user, partition)
UniqueKeys ==
    \A i, j \in 1..Len(assoc) :
        (/\ assoc[i].acct = assoc[j].acct
         /\ assoc[i].user = assoc[j].user
         /\ assoc[i].partition = assoc[j].partition) => i = j

\* C2: the association-detail endpoint answers a request whose supplied
\* filters (an omitted user or partition being no filter) match more than one
\* non-deleted row with neither a single row nor the not-found response
\* (stated for the stores whose rows differ in acct, user or partition).
C2_DetailSurfacesAmbiguity ==
    (/\ req.op = "HandlerGetTreeAssociationsDetail"
     /\ client = GoodClient
     /\ UniqueKeys
     /\ req.q.account # <<>>)
    => LET M == {i \in 1..Len(assoc) :
                    /\ assoc[i].deleted = 0
                    /\ assoc[i].acct = req.q.account[1]
                    /\ (req.q.user # <<>> => assoc[i].user = req.q.user[1])
                    /\ (req.q.partition # <<>>
                          => assoc[i].partition = req.q.partition[1])}
       IN Cardinality(M) > 1
            => /\ resp.status # 200
               /\ ~(resp.status = 400 /\ resp.detail = "association not found")

\* no write reached the edge relation between the queries of the call
Quiet == seen \subseteq {assoc}

\* the user names of the non-deleted rows of the account that carry a user
DirectUsers(account) ==
    {u \in Users \ {<<>>} :
        \E i \in 1..Len(assoc) :
            assoc[i].deleted = 0 /\ assoc[i].acct = account /\ assoc[i].user = u}

\* edges A -> B -> C held by the store: B under A, C under B, C not under A
ChainABC ==
    /\ \E i \in 1..Len(assoc) :
          /\ assoc[i].deleted = 0 /\ assoc[i].user = <<>>
          /\ assoc[i].acct = B /\ assoc[i].parent_acct = A
    /\ \E i \in 1..Len(assoc) :
          /\ assoc[i].deleted = 0 /\ assoc[i].user = <<>>
          /\ assoc[i].acct = C /\ assoc[i].parent_acct = B
    /\ \A i \in 1..Len(assoc) :
          assoc[i].acct = C => assoc[i].parent_acct # A

\* C3 (as stated): on a store no one writes to during the call, the
\* sub-accounts are exactly the account names of the
\* non-deleted edges whose parent account is the given one, the sub-users
\* exactly the non-empty user names of the non-deleted edges of the account,
\* and for A -> B -> C the children of A never include C.
C3_DirectChildrenOfAnyEdge ==
    (req.op = "GetSubAccountsAndUsers" /\ resp.kind = "ok" /\ Quiet)
    => /\ \A a \in Accts :
            a \in resp.subAccts
            <=> \E i \in 1..Len(assoc) :
                   /\ assoc[i].deleted = 0
                   /\ assoc[i].parent_acct = req.account
                   /\ assoc[i].acct = a
       /\ resp.subAccts \subseteq Accts
       /\ resp.subUsers = DirectUsers(req.account)
       /\ (ChainABC /\ req.account = A => C \notin resp.subAccts)

\* C3 (amended): as above, with the sub-accounts taken from the non-deleted
\* account-level edges (user field empty) whose parent account is the given
\* one.
C3_DirectChildren ==
    (req.op = "GetSubAccountsAndUsers" /\ resp.kind = "ok" /\ Quiet)
    => /\ \A a \in Accts :
            a \in resp.subAccts
            <=> \E i \in 1..Len(assoc) :
                   /\ assoc[i].deleted = 0
                   /\ assoc[i].user = <<>>
                   /\ assoc[i].parent_acct = req.account
                   /\ assoc[i].acct = a
       /\ resp.subAccts \subseteq Accts
       /\ resp.subUsers = DirectUsers(req.account)
       /\ (ChainABC /\ req.account = A => C \notin resp.subAccts)

C3_Witness ==
    /\ req.op = "GetSubAccountsAndUsers"
    /\ req.account = A
    /\ ChainABC
    /\ resp.kind = "ok" /\ Quiet
    /\ resp.subAccts = {B}

\* C4: GetPartitionOfAccount hands the caller every distinct partition value
\* of the non-deleted rows of the account whose user field is empty.
C4_EveryDefaultPartitionReturned ==
    (req.op = "GetPartitionOfAccount" /\ resp.kind = "ok")
    => \A p \in Parts :
          (\E i \in 1..Len(assoc) :
              /\ assoc[i].deleted = 0 /\ assoc[i].acct = req.account
              /\ assoc[i].user = <<>> /\ assoc[i].partition = p)
          => p \in {resp.partition}

(***************************************************************************)
(* Properties of the command-output parser (checked under SpecCtl).        *)
(***************************************************************************)
\* the lines among ls that GetNodes does not skip
NotSkipped(ls) == SelectSeq(ls, LAMBDA l : Len(Fields(l)) >= MinNodeFields)

\* the partition fields of the lines of ls bearing the name, in order
RECURSIVE PartitionsOf(_, _)
PartitionsOf(ls, name) ==
    IF ls = <<>> THEN <<>>
    ELSE (IF Fields(Head(ls))[1] = name THEN <<Fields(Head(ls))[2]>> ELSE <<>>)
         \o PartitionsOf(Tail(ls), name)

\* C5: the result of GetNodes holds each node name once, and the partition
\* list of a node is the partition field of every accepted line bearing that
\* name, in order of appearance (two lines, one name, two partitions: one
\* record with a list of length 2).
C5_NodeMerge ==
    (op = "GetNodes" /\ pc \in {"scan", "done"})
    => /\ DOMAIN nodes = {Fields(l)[1] : l \in Range(NotSkipped(consumed))}
       /\ \A n \in DOMAIN nodes :
            /\ nodes[n].Name = n
            /\ nodes[n].Partition = PartitionsOf(NotSkipped(consumed), n)

C5_Witness ==
    /\ op = "GetNodes" /\ pc = "done"
    /\ Len(consumed) = 2
    /\ \A i \in 1..2 : Len(Fields(consumed[i])) = NodeFormatFields
    /\ Fields(consumed[1])[1] = Fields(consumed[2])[1]
    /\ Fields(consumed[1])[2] # Fields(consumed[2])[2]
    /\ DOMAIN nodes = {<<"n1">>}
    /\ nodes[<<"n1">>].Partition = << <<"p1">>, <<"p2">> >>

SameButPartition(a, b) ==
    \A k \in (DOMAIN a) \ {"Partition"} : a[k] = b[k]

\* C6: a line whose node name was already seen changes nothing but the
\* partition list of that node: no node is added, the node keeps its state,
\* memory, cpu, socket, core, thread and generic-resource values, and every
\* other node is left as it was.
C6_SeenNameOnlyGrowsPartitions ==
    [][(/\ op = "GetNodes" /\ pc = "scan" /\ lines # <<>>
        /\ Fields(Head(lines)) # <<>>
        /\ Fields(Head(lines))[1] \in DOMAIN nodes)
       => /\ DOMAIN nodes' = DOMAIN nodes
          /\ \A n \in DOMAIN nodes :
                /\ SameButPartition(nodes[n], nodes'[n])
                /\ (n # Fields(Head(lines))[1] => nodes'[n] = nodes[n])]_vars

\* a second line for n1 was merged although its state differs from the first
C6_Witness ==
    /\ op = "GetNodes" /\ pc = "done"
    /\ <<"n1">> \in DOMAIN nodes
    /\ Len(nodes[<<"n1">>].Partition) = 2
    /\ Len(consumed) >= 2
    /\ Len(Fields(consumed[2])) = NodeFormatFields
    /\ Fields(consumed[2])[1] = <<"n1">>
    /\ Fields(consumed[2])[3] # nodes[<<"n1">>].State
    /\ Fields(consumed[2])[4] # nodes[<<"n1">>].Memory

\* the lines of ls with exactly the fields of the sinfo format
ExactNodeLines(ls) ==
    SelectSeq(ls, LAMBDA l : Len(Fields(l)) = NodeFormatFields)

\* C7: only a line with exactly 9 fields is converted; a line with any other
\* field count is skipped with a warning and contributes nothing.
C7_OnlyNineFieldLinesCount ==
    op = "GetNodes"
    => /\ pc # "panic"
       /\ warns = SelectSeq(consumed,
                            LAMBDA l : Len(Fields(l)) # NodeFormatFields)
       /\ DOMAIN nodes = {Fields(l)[1] : l \in Range(ExactNodeLines(consumed))}
       /\ \A n \in DOMAIN nodes :
            nodes[n].Partition = PartitionsOf(ExactNodeLines(consumed), n)

\* the field count a listing method expects, and the fields of a line
Required(o) ==
    CASE o = "GetNodes" -> NodeFormatFields
      [] o = "GetJobs" -> JobFields
      [] o = "GetStepsOfJob" -> StepFields

FieldsOf(o, l) == IF o = "GetJobs" THEN Split(l, "|") ELSE Fields(l)

WellFormed(o, ls) ==
    SelectSeq(ls, LAMBDA l : Len(FieldsOf(o, l)) = Required(o))

\* ls is well-formed lines plus exactly one line with fewer fields
OneShortLine(o, ls) ==
    /\ Len(ls) = Len(WellFormed(o, ls)) + 1
    /\ \E i \in 1..Len(ls) : Len(FieldsOf(o, ls[i])) < Required(o)

\* the number of line records a result holds (a node holds one per partition)
RECURSIVE SumPartitions(_)
SumPartitions(S) ==
    IF S = {} THEN 0
    ELSE LET n == CHOOSE x \in S : TRUE
         IN Len(nodes[n].Partition) + SumPartitions(S \ {n})

RecordCount ==
    CASE op = "GetNodes" -> SumPartitions(DOMAIN nodes)
      [] op = "GetJobs" -> Len(jobs)
      [] op = "GetStepsOfJob" -> Len(steps)

\* C8: a batch of N well-formed lines plus one line with fewer fields than
\* required, anywhere in the batch, neither aborts nor fails, and yields
\* exactly the N records of the well-formed lines.
C8_ShortLineDropped ==
    (/\ op \in {"GetNodes", "GetJobs", "GetStepsOfJob"}
     /\ ~cmdErr
     /\ OneShortLine(op, ScanLines(out)))
    => /\ pc \notin {"panic", "error"}
       /\ pc = "done" => RecordCount = Len(WellFormed(op, ScanLines(out)))

\* C9: whenever the command succeeded the parser operation returns without
\* error and without crashing, whatever the text.
C9_NoFailureAfterCommandSuccess ==
    ~cmdErr => pc \notin {"panic", "error"}

\* an optionally signed, non-empty run of digits
IsIntegerText(tok) ==
    /\ tok # <<>>
    /\ LET body == IF Head(tok) \in {"+", "-"} THEN Tail(tok) ELSE tok
       IN body # <<>> /\ \A i \in 1..Len(body) : IsDigit(body[i])

NumField(node, k) ==
    CASE k = 4 -> node.Memory
      [] k = 5 -> node.CPUs
      [] k = 6 -> node.Socket
      [] k = 7 -> node.Cores
      [] k = 8 -> node.Threads

\* C10: the first line of a node, when it has the 9 fields, sets the record:
\* a memory, cpu, socket, core or thread token that is not a valid integer
\* leaves 0 in that field, and the record keeps name, partition, state and
\* generic resource from the line.
C10_BadNumberIsZero ==
    (op = "GetNodes" /\ pc \in {"scan", "done"})
    => \A i \in 1..Len(consumed) :
         LET f == Fields(consumed[i]) IN
         (/\ Len(f) = NodeFormatFields
          /\ \A j \in 1..(i-1) :
                Len(Fields(consumed[j])) < MinNodeFields
                \/ Fields(consumed[j])[1] # f[1])
         => /\ f[1] \in DOMAIN nodes
            /\ nodes[f[1]].Name = f[1]
            /\ nodes[f[1]].State = f[3]
            /\ nodes[f[1]].GPU = f[9]
            /\ Head(nodes[f[1]].Partition) = f[2]
            /\ \A k \in 4..8 :
                  ~IsIntegerText(f[k]) => NumField(nodes[f[1]], k) = ZeroDec

(***************************************************************************)
(* Properties of the partition parsers (checked under SpecPart).           *)
(***************************************************************************)
HasEq(t) == \E i \in 1..Len(t) : t[i] = "="

\* the tokens of a line that contain "=", in order
KVTokens(l) == SelectSeq(Fields(l), HasEq)

\* the text before and after the first "=" of a token that has one
BeforeFirstEq(t) ==
    LET e == CHOOSE i \in 1..Len(t) : t[i] = "=" /\ \A j \in 1..(i-1) : t[j] # "="
    IN SubSeq(t, 1, e - 1)

AfterFirstEq(t) ==
    LET e == CHOOSE i \in 1..Len(t) : t[i] = "=" /\ \A j \in 1..(i-1) : t[j] # "="
    IN SubSeq(t, e + 1, Len(t))

LineKVs(l, n) ==
    [i \in 1..Len(KVTokens(l)) |->
        [key |-> BeforeFirstEq(KVTokens(l)[i]),
         val |-> AfterFirstEq(KVTokens(l)[i]),
         line |-> n]]

\* every key=value token of the lines ls, in reading order
AllKVs(ls) == Concat([n \in 1..Len(ls) |-> LineKVs(ls[n], n)])

IsBlankLine(l) == Fields(l) = <<>>

\* the blocks parsePartitions has produced so far: the finished ones and,
\* until it returns, the one in progress when it holds a key
PartBlocks ==
    IF pc = "done" \/ DOMAIN current = {} THEN parts ELSE Append(parts, current)

\* C11: every PartitionName token starts a block of its own: the blocks that
\* hold a PartitionName key are, in order, one per PartitionName token read,
\* each holding the value of its token (so none was overwritten, whatever
\* value the key held when the next PartitionName token arrived).
C11_PartitionNameStartsBlock ==
    (op = "GetPartitions" /\ pc \in {"scan", "done"})
    => LET names == SelectSeq(AllKVs(consumed),
                              LAMBDA kv : kv.key = PartitionNameKey)
           named == SelectSeq(PartBlocks,
                              LAMBDA b : PartitionNameKey \in DOMAIN b)
       IN  /\ Len(named) = Len(names)
           /\ \A j \in 1..Len(names) :
                j <= Len(named) => named[j][PartitionNameKey] = names[j].val

\* C12: the result of parsePartitions never holds an empty block, and every
\* key=value token read is held by a block unless a later token of the same
\* run of non-blank lines carries the same key.
C12_NoEmptyBlockNoLostToken ==
    (op = "GetPartitions" /\ pc \in {"scan", "done"})
    => /\ \A j \in 1..Len(parts) : DOMAIN parts[j] # {}
       /\ LET kvs == AllKVs(consumed) IN
          \A i \in 1..Len(kvs) :
             \/ \E j \in 1..Len(PartBlocks) :
                   /\ kvs[i].key \in DOMAIN PartBlocks[j]
                   /\ PartBlocks[j][kvs[i].key] = kvs[i].val
             \/ \E i2 \in (i+1)..Len(kvs) :
                   /\ kvs[i2].key = kvs[i].key
                   /\ \A n \in kvs[i].line..kvs[i2].line :
                         ~IsBlankLine(consumed[n])

\* a blank line first, a block, and input that ends inside a second block
C12_Witness ==
    /\ op = "GetPartitions" /\ pc = "done"
    /\ Len(consumed) = 3
    /\ IsBlankLine(consumed[1])
    /\ ~IsBlankLine(consumed[2]) /\ ~IsBlankLine(consumed[3])
    /\ Len(parts) = 2
    /\ Lookup(parts[2], PartitionNameKey) = <<"p2">>

\* the blocks a partition parser holds
ParsedBlocks == IF op = "GetPartitions" THEN PartBlocks ELSE <<current>>

\* C13: in both parsers every key held is the text before the first "=" of
\* a token read and its value the whole text after that "=", every token
\* with "=" has its key held, and a line whose tokens have no "=" changes
\* neither the finished blocks nor the block in progress.
C13_SplitAtFirstEq ==
    /\ [](op \in PartOps /\ pc \in {"scan", "done"}
          => LET kvs == AllKVs(consumed) IN
             /\ \A j \in 1..Len(ParsedBlocks) :
                   \A k \in DOMAIN ParsedBlocks[j] :
                      \E i \in 1..Len(kvs) :
                         kvs[i].key = k /\ kvs[i].val = ParsedBlocks[j][k]
             /\ \A i \in 1..Len(kvs) :
                   \E j \in 1..Len(ParsedBlocks) :
                      kvs[i].key \in DOMAIN ParsedBlocks[j])
    /\ [][(/\ op \in PartOps /\ pc = "scan" /\ lines # <<>>
           /\ ~IsBlankLine(Head(lines))
           /\ KVTokens(Head(lines)) = <<>>)
          => UNCHANGED <<parts, current>>]_vars

\* TRES=cpu=4, =x and junk were read after a PartitionName line
C13_Witness ==
    /\ op \in PartOps /\ pc = "done"
    /\ Len(consumed) = 3
    /\ consumed[3] = <<"junk">>
    /\ Len(ParsedBlocks) = 1
    /\ Lookup(ParsedBlocks[1], PartitionNameKey) = <<"p1">>
    /\ Lookup(ParsedBlocks[1], <<"TRES">>) = <<"cpu", "=", "4">>
    /\ <<>> \in DOMAIN ParsedBlocks[1]
    /\ ParsedBlocks[1][<<>>] = <<"x">>
    /\ <<"junk">> \notin DOMAIN ParsedBlocks[1]

\* the maximal runs of non-blank lines of ls, in order
RECURSIVE RunsFrom(_, _, _)
RunsFrom(ls, cur, acc) ==
    IF ls = <<>> THEN (IF cur = <<>> THEN acc ELSE Append(acc, cur))
    ELSE IF IsBlankLine(Head(ls))
         THEN RunsFrom(Tail(ls), <<>>,
                       IF cur = <<>> THEN acc ELSE Append(acc, cur))
         ELSE RunsFrom(Tail(ls), Append(cur, Head(ls)), acc)

InputBlocks(ls) == RunsFrom(ls, <<>>, <<>>)

\* a block of the input: it begins with a PartitionName token, holds no
\* other, and no key twice
WellFormedBlock(run) ==
    LET kvs == AllKVs(run) IN
    /\ kvs # <<>>
    /\ kvs[1].key = PartitionNameKey
    /\ \A i, j \in 1..Len(kvs) : kvs[i].key = kvs[j].key => i = j

\* C14: a text of K well-formed blocks separated by blank lines gives K
\* blocks in the order of the text, block i holding exactly the keys of the
\* i-th input block, each with its value.
C14_BlocksInOrder ==
    (/\ op = "GetPartitions" /\ pc = "done"
     /\ \A i \in 1..Len(InputBlocks(consumed)) :
           WellFormedBlock(InputBlocks(consumed)[i]))
    => /\ Len(parts) = Len(InputBlocks(consumed))
       /\ \A i \in 1..Len(InputBlocks(consumed)) :
             i <= Len(parts) =>
             LET kvs == AllKVs(InputBlocks(consumed)[i]) IN
             /\ DOMAIN parts[i] = {kvs[n].key : n \in 1..Len(kvs)}
             /\ \A n \in 1..Len(kvs) : parts[i][kvs[n].key] = kvs[n].val

\* the two-block sample
C14_Witness ==
    /\ op = "GetPartitions" /\ pc = "done"
    /\ Len(InputBlocks(consumed)) = 2
    /\ \A i \in 1..2 : WellFormedBlock(InputBlocks(consumed)[i])
    /\ Len(parts) = 2
    /\ Lookup(parts[1], PartitionNameKey) = <<"p1">>
    /\ Lookup(parts[1], <<"Nodes">>) = <<"node44">>
    /\ Lookup(parts[1], <<"State">>) = <<"UP">>
    /\ Lookup(parts[2], PartitionNameKey) = <<"p2">>
    /\ Lookup(parts[2], <<"Nodes">>) = <<"node2026">>
    /\ Lookup(parts[2], <<"MaxTime">>) = <<"UNLIMITED">>

\* C15: parsePartition holds one block whose keys are those of every
\* key=value token of the text read, blank lines and repeated PartitionName
\* keys notwithstanding, each key with the value of its last occurrence.
C15_OneFlatBlock ==
    (op = "GetPartition" /\ pc \in {"scan", "done"})
    => LET kvs == AllKVs(consumed) IN
       /\ DOMAIN current = {kvs[i].key : i \in 1..Len(kvs)}
       /\ \A i \in 1..Len(kvs) :
             (\A j \in (i+1)..Len(kvs) : kvs[j].key # kvs[i].key)
             => current[kvs[i].key] = kvs[i].val

\* two named blocks with a blank line between them, flattened into one
C15_Witness ==
    /\ op = "GetPartition" /\ pc = "done"
    /\ Len(consumed) = 3
    /\ IsBlankLine(consumed[2])
    /\ AllKVs(consumed) # <<>>
    /\ AllKVs(consumed)[1].key = PartitionNameKey
    /\ AllKVs(consumed)[1].val = <<"p1">>
    /\ Lookup(current, PartitionNameKey) = <<"p2">>
    /\ Lookup(current, <<"Nodes">>) = <<"node2026">>
    /\ Lookup(current, <<"State">>) = <<"UP">>
    /\ Lookup(current, <<"MaxTime">>) = <<"UNLIMITED">>

(***************************************************************************)
(* Properties of the tree assemblies and of error handling.                *)
(***************************************************************************)
AccountOps ==
    {"GetSubAccountsAndUsers", "GetPartitionOfAccount", "GetAssociation",
     "FindAssociationOne", "GetChildNodesOfAccount",
     "GetAssociationChildNodesOfAccount", "GetAssociationTree"}

\* the names the operation being answered requires
RequiredNames ==
    IF req.op \in AccountOps THEN {req.account}
    ELSE IF req.op = "GetParentAccountsByUser" THEN {req.username}
    ELSE IF req.op = "GetPartitionsOfUser" THEN {req.account, req.user}
    ELSE {}

\* C16: every resolver operation called (on a client that has a store) with
\* an empty or whitespace-only required name returns an error and sends no
\* query to the store.
C16_BlankNameRejectedBeforeQuery ==
    (/\ client.ptr /\ client.DB
     /\ \E n \in RequiredNames : Blank(n))
    => resp.kind = "error" /\ queries = <<>>

\* C17: one assembly of the account tree sends at most one admin-level
\* query to the user relation, however many sub-users the account has.
C17_OneAdminLevelQuery ==
    req.op = "GetChildNodesOfAccount"
    => Cardinality({i \in 1..Len(queries) : queries[i] = UserQuery}) <= 1

\* the direct sub-accounts and sub-users of an account in the store
DirectSubAccounts(account) ==
    {assoc[i].acct : i \in {j \in 1..Len(assoc) :
        /\ assoc[j].deleted = 0 /\ assoc[j].user = <<>>
        /\ assoc[j].parent_acct = account}}

DirectSubUsers(account) ==
    {assoc[i].user : i \in {j \in 1..Len(assoc) :
        /\ assoc[j].deleted = 0 /\ assoc[j].user # <<>>
        /\ assoc[j].acct = account}}

\* C18: a successful GetChildNodesOfAccount, on a store no one writes to
\* between its queries, returns the description and
\* organization of the non-deleted account record of that name, the direct
\* sub-accounts, and one entry per direct sub-user with the accounts of all
\* its non-deleted edges and the admin level of its non-deleted user record.
C18_AccountNode ==
    (req.op = "GetChildNodesOfAccount" /\ resp.kind = "ok" /\ Quiet)
    => LET T == resp.tree IN
       /\ \E i \in 1..Len(acctTable) :
             /\ acctTable[i].deleted = 0
             /\ acctTable[i].name = req.account
             /\ T.Description = acctTable[i].description
             /\ T.Organization = acctTable[i].organization
       /\ T.SubAccounts = DirectSubAccounts(req.account)
       /\ \A u \in DirectSubUsers(req.account) :
             Cardinality({i \in 1..Len(T.SubUsers) : T.SubUsers[i].Name = u}) = 1
       /\ \A i \in 1..Len(T.SubUsers) :
             /\ T.SubUsers[i].Name \in DirectSubUsers(req.account)
             /\ T.SubUsers[i].AvailableAccounts
                  = {assoc[j].acct : j \in {k \in 1..Len(assoc) :
                        /\ assoc[k].deleted = 0
                        /\ assoc[k].user = T.SubUsers[i].Name}}
             /\ \A j \in 1..Len(userTable) :
                   (/\ userTable[j].deleted = 0
                    /\ userTable[j].name = T.SubUsers[i].Name)
                   => T.SubUsers[i].AdminLevel = userTable[j].admin_level

\* u1 is under A and under B; the node of A lists u1 with both accounts
C18_Witness ==
    /\ req.op = "GetChildNodesOfAccount" /\ req.account = A
    /\ resp.kind = "ok" /\ Quiet
    /\ resp.tree.Description = "dA" /\ resp.tree.Organization = "oA"
    /\ Len(resp.tree.SubUsers) = 1
    /\ resp.tree.SubUsers[1].Name = u1
    /\ resp.tree.SubUsers[1].AvailableAccounts = {A, B}
    /\ resp.tree.SubUsers[1].AdminLevel = 1

\* the partition list of a sub-user entry of either association assembly
PartitionsOfEntry(e) ==
    IF req.op = "GetAssociationTree" THEN e.Partition ELSE e.Partitions

\* C19: a successful association assembly, on a store no one writes to
\* between its queries, returns a default partition of
\* the account (empty when it has none) at the root, the direct
\* sub-accounts, and one entry per direct sub-user whose partitions are the
\* non-empty partitions of the non-deleted edges of that account and user.
C19_AssociationNode ==
    (/\ req.op \in {"GetAssociationChildNodesOfAccount", "GetAssociationTree"}
     /\ resp.kind = "ok" /\ Quiet)
    => LET T == resp.tree IN
       /\ IF DefaultPartitions(assoc, req.account) = {}
          THEN T.Partition = <<>>
          ELSE T.Partition \in DefaultPartitions(assoc, req.account)
       /\ T.SubAccounts = DirectSubAccounts(req.account)
       /\ \A u \in DirectSubUsers(req.account) :
             Cardinality({i \in 1..Len(T.SubUsers) : T.SubUsers[i].Name = u}) = 1
       /\ \A i \in 1..Len(T.SubUsers) :
             /\ T.SubUsers[i].Name \in DirectSubUsers(req.account)
             /\ <<>> \notin PartitionsOfEntry(T.SubUsers[i])
             /\ PartitionsOfEntry(T.SubUsers[i])
                  = {assoc[j].partition : j \in {k \in 1..Len(assoc) :
                        /\ assoc[k].deleted = 0
                        /\ assoc[k].acct = req.account
                        /\ assoc[k].user = T.SubUsers[i].Name
                        /\ assoc[k].partition # <<>>}}

\* u1 holds p1 under A and p2 under B; the node of A lists u1 with p1 only
C19_Witness ==
    /\ req.op = "GetAssociationChildNodesOfAccount" /\ req.account = A
    /\ resp.kind = "ok" /\ Quiet
    /\ \E i \in 1..Len(assoc) :
          /\ assoc[i].deleted = 0 /\ assoc[i].acct = B
          /\ assoc[i].user = u1 /\ assoc[i].partition = p2
    /\ Len(resp.tree.SubUsers) = 1
    /\ resp.tree.SubUsers[1].Name = u1
    /\ resp.tree.SubUsers[1].Partitions = {p1}

\* C20: when the command or a store query failed, the error the operation
\* returns is, or wraps, the error of the command or of the store.
C20_SourceErrorPassedThrough ==
    /\ (cmdErr /\ pc = "error") => ErrorsIs(ctlErr, ExecError)
    /\ (/\ req.op # "none"
        /\ client.ptr /\ client.DB
        /\ client.ClusterName # StoreCluster
        /\ AssocQuery \in Range(queries))
       => ErrorsIs(resp, ErrNoTable)

\* a relation with its deleted rows removed
Purge(t) == SelectSeq(t, LAMBDA r : r.deleted = 0)

\* the results the operation being answered can give on the relations t
\* (edges), at (accounts) and ut (users)
ResultsOn(t, at, ut) ==
    CASE req.op = "GetSubAccountsAndUsers"
           -> {GetSubAccountsAndUsers(client, t, req.account)}
      [] req.op = "GetParentAccountsByUser"
           -> {GetParentAccountsByUser(client, t, req.username)}
      [] req.op = "GetPartitionOfAccount"
           -> GetPartitionOfAccountOutcomes(client, t, req.account)
      [] req.op = "GetPartitionsOfUser"
           -> {GetPartitionsOfUser(client, t, req.account, req.user)}
      [] req.op = "FindAssociationOne"
           -> {FindAssociationOne(client, t, req.account, req.user,
                                  req.partition)}
      [] req.op = "GetAssociation"
           -> {GetAssociation(client, t, req.account, req.user, req.partition)}
      [] req.op = "GetChildNodesOfAccount"
           -> {o.resp : o \in GetChildNodesOfAccountOutcomes(client, t, at, ut,
                                                             req.account)}
      [] req.op = "GetAssociationChildNodesOfAccount"
           -> {o.resp : o \in GetAssociationChildNodesOfAccountOutcomes(
                                  client, t, req.account)}
      [] req.op = "GetAssociationTree"
           -> {o.resp : o \in GetAssociationTreeOutcomes(client, t, req.account)}
      [] req.op = "GetUserAdminLevels"
           -> {GetUserAdminLevels(client, ut, req.usernames)}
      [] req.op = "HandlerChildNodesOfAccount"
           -> {o.resp : o \in HandlerChildNodesOfAccountOutcomes(
                                  client, t, at, ut, req.account)}
      [] req.op = "HandlerGetAssociationChildNodesOfAccount"
           -> {o.resp : o \in HandlerGetAssociationChildNodesOfAccountOutcomes(
                                  client, t, req.account)}

\* C21: on a store no one writes to between the queries of the call, the
\* result of every resolver operation is a result the operation
\* gives on the relations with all deleted rows removed, and the operation
\* gives the same results on both.
C21_DeletedRowsIgnored ==
    (req.op # "none" /\ resp.kind # "none" /\ Quiet)
    => /\ resp \in ResultsOn(Purge(assoc), Purge(acctTable), Purge(userTable))
       /\ ResultsOn(assoc, acctTable, userTable)
            = ResultsOn(Purge(assoc), Purge(acctTable), Purge(userTable))

\* an account tree assembled over a deleted edge and a deleted user record
C21_Witness ==
    /\ req.op = "GetChildNodesOfAccount" /\ resp.kind = "ok" /\ Quiet
    /\ \E i \in 1..Len(assoc) : assoc[i].deleted = 1
    /\ Len(resp.tree.SubUsers) = 1
    /\ \E j \in 1..Len(userTable) :
          /\ userTable[j].deleted = 1
          /\ userTable[j].name = resp.tree.SubUsers[1].Name
    /\ resp.tree.SubUsers[1].AdminLevel = 0

(***************************************************************************)
(* Properties of the listings and of the two partition parsers.            *)
(***************************************************************************)
\* C24: in the result of GetNodes no node's partition list holds the same
\* partition value twice, whatever lines the listing repeats.
C24_PartitionListIsSet ==
    (op = "GetNodes" /\ pc \in {"scan", "done"})
    => \A n \in DOMAIN nodes :
          \A i, j \in 1..Len(nodes[n].Partition) :
              nodes[n].Partition[i] = nodes[n].Partition[j] => i = j

\* the positions of "|" in a line, and the text between the (k-1)-th and the
\* k-th of them (the ends of the line standing for the 0-th and the last)
Pipes(l) == {i \in 1..Len(l) : l[i] = "|"}

PipeAt(l, k) ==
    IF k = 0 THEN 0
    ELSE IF k > Cardinality(Pipes(l)) THEN Len(l) + 1
    ELSE CHOOSE i \in Pipes(l) : Cardinality({j \in Pipes(l) : j <= i}) = k

PipeField(l, k) == SubSeq(l, PipeAt(l, k - 1) + 1, PipeAt(l, k) - 1)

\* the lines that split on "|" into exactly 9 fields, and those that have
\* exactly 3 whitespace-separated fields
NineFieldLines(ls) == SelectSeq(ls, LAMBDA l : Cardinality(Pipes(l)) = 8)

ThreeFieldLines(ls) == SelectSeq(ls, LAMBDA l : Len(Fields(l)) = 3)

\* C25: GetJobs gives one Job per line that splits on "|" into exactly 9
\* fields, the fields taken by position (id, state, user, account, cpus,
\* nodelist, partition, qos, reason), empty ones kept, in input order;
\* GetStepsOfJob gives one Step per line with exactly 3 fields (stepid,
\* stepname, stepstate), in input order; every other line gives nothing.
C25_JobsAndStepsPositional ==
    /\ (op = "GetJobs" /\ pc \in {"scan", "done"})
       => LET ls == NineFieldLines(consumed) IN
          /\ Len(jobs) = Len(ls)
          /\ \A i \in 1..Len(ls) :
                jobs[i] = [Jobid     |-> PipeField(ls[i], 1),
                           State     |-> PipeField(ls[i], 2),
                           User      |-> PipeField(ls[i], 3),
                           Account   |-> PipeField(ls[i], 4),
                           CPUs      |-> PipeField(ls[i], 5),
                           Nodelist  |-> PipeField(ls[i], 6),
                           Partition |-> PipeField(ls[i], 7),
                           QoS       |-> PipeField(ls[i], 8),
                           Reason    |-> PipeField(ls[i], 9)]
          /\ (pc = "done" => ctlErr = NilError)
    /\ (op = "GetStepsOfJob" /\ pc \in {"scan", "done"})
       => LET ls == ThreeFieldLines(consumed) IN
          /\ Len(steps) = Len(ls)
          /\ \A i \in 1..Len(ls) :
                steps[i] = [ID    |-> Fields(ls[i])[1],
                            Name  |-> Fields(ls[i])[2],
                            State |-> Fields(ls[i])[3]]
          /\ (pc = "done" => ctlErr = NilError)

\* three lines, one of ten fields between two of nine, the second job with
\* an empty account and an empty node list
C25_Witness ==
    /\ op = "GetJobs" /\ pc = "done"
    /\ Len(consumed) = 3
    /\ Cardinality(Pipes(consumed[2])) = 9
    /\ Len(jobs) = 2
    /\ jobs[1].Jobid = <<"1">> /\ jobs[1].Reason = <<"None">>
    /\ jobs[2].Jobid = <<"2">> /\ jobs[2].Account = <<>>
    /\ jobs[2].Nodelist = <<>> /\ jobs[2].Reason = <<"Resources">>

\* a text with a key=value token, no blank line between two such tokens and
\* at most one PartitionName token
OnePartitionText(ls) ==
    LET kvs == AllKVs(ls) IN
    /\ kvs # <<>>
    /\ Cardinality({i \in 1..Len(kvs) : kvs[i].key = PartitionNameKey}) <= 1
    /\ \A n \in 1..Len(ls) :
          IsBlankLine(ls[n])
          => ~(/\ \E i \in 1..Len(kvs) : kvs[i].line < n
               /\ \E i \in 1..Len(kvs) : kvs[i].line > n)

\* C29: on a text with a key=value token, no blank line between tokens and
\* at most one PartitionName token, parsePartitions returns exactly one
\* block, the block parsePartition returns.
C29_ParsersAgree ==
    (pc = "done" /\ ctlErr = NilError /\ OnePartitionText(consumed))
    => /\ op = "GetPartitions" => parts = <<parsePartition(consumed)>>
       /\ op = "GetPartition" => parsePartitions(consumed) = <<current>>

\* a line that sets State before and after its PartitionName token, a
\* continuation line and a closing blank line, parsed by parsePartitions
C29_Witness ==
    /\ op = "GetPartitions" /\ pc = "done" /\ ctlErr = NilError
    /\ OnePartitionText(consumed)
    /\ Len(consumed) = 3
    /\ AllKVs(consumed)[1].key = <<"State">>
    /\ IsBlankLine(consumed[3])
    /\ Len(parts) = 1
    /\ Lookup(parts[1], PartitionNameKey) = <<"p2">>
    /\ Lookup(parts[1], <<"State">>) = <<"UP">>
    /\ Lookup(parts[1], <<"Default">>) = <<"NO">>

\* a filter that constrains nothing stands for the absent one
Unconstrained(f) == IF Supplied(f) THEN f ELSE Nil

\* C30: in FindAssociationOne a nil user or partition filter and an empty or
\* whitespace-only one give the same result, the field being left
\* unconstrained; a lookup by account alone on an account with a non-deleted
\* account-level row and a non-deleted user row gives ErrMultipleAssociations.
C30_BlankFilterIsNoFilter ==
    req.op = "FindAssociationOne"
    => /\ resp = FindAssociationOne(client, assoc, req.account,
                                    Unconstrained(req.user),
                                    Unconstrained(req.partition))
       /\ \A u \in {Nil, Ptr(<<>>), Ptr(<<" ">>), Ptr(<<" ", "\t">>)} :
             ~Supplied(req.user)
             => resp = FindAssociationOne(client, assoc, req.account, u,
                                          req.partition)
       /\ \A p \in {Nil, Ptr(<<>>), Ptr(<<" ">>), Ptr(<<" ", "\t">>)} :
             ~Supplied(req.partition)
             => resp = FindAssociationOne(client, assoc, req.account,
                                          req.user, p)
       /\ (/\ client = GoodClient /\ ~Blank(req.account)
           /\ ~Supplied(req.user) /\ ~Supplied(req.partition)
           /\ \E i \in 1..Len(assoc) :
                 /\ assoc[i].deleted = 0 /\ assoc[i].acct = req.account
                 /\ assoc[i].user = <<>>
           /\ \E i \in 1..Len(assoc) :
                 /\ assoc[i].deleted = 0 /\ assoc[i].acct = req.account
                 /\ assoc[i].user # <<>>)
          => resp = Err(ErrMultipleAssociations)

\* account A with its account-level row and a row of u1, looked up with a
\* whitespace-only user and an empty partition
C30_Witness ==
    /\ req.op = "FindAssociationOne" /\ client = GoodClient
    /\ req.account = A /\ req.user = Ptr(<<" ">>) /\ req.partition = Ptr(<<>>)
    /\ \E i, j \in 1..Len(assoc) :
          /\ assoc[i].deleted = 0 /\ assoc[i].acct = A /\ assoc[i].user = <<>>
          /\ assoc[j].deleted = 0 /\ assoc[j].acct = A /\ assoc[j].user = u1
    /\ resp = Err(ErrMultipleAssociations)

(***************************************************************************)
(* Properties of the child-node endpoints.                                 *)
(***************************************************************************)
\* the account has no non-deleted record in the account table
NoSuchAccount(account) ==
    \A i \in 1..Len(acctTable) :
        ~(acctTable[i].name = account /\ acctTable[i].deleted = 0)

\* C27: both child-node endpoints answer a request that names an account
\* with no non-deleted record with the 400 response "account not found or
\* deleted", never with a 200 and never with a 500.
C27_MissingAccountIs400 ==
    (/\ req.op \in {"HandlerChildNodesOfAccount",
                    "HandlerGetAssociationChildNodesOfAccount"}
     /\ resp.kind = "http"
     /\ client = GoodClient /\ ~Blank(req.account)
     /\ NoSuchAccount(req.account))
    => /\ resp.status = 400
       /\ resp.detail = <<"account not found or deleted">>

(***************************************************************************)
(* Properties of the paginated listings.                                   *)
(***************************************************************************)
PagingOps == {"HandlerGetAllNodes", "HandlerGetAllJobs",
              "HandlerGetAllPartitions"}

\* the list the handler being answered pages on
Listed ==
    IF req.op = "HandlerGetAllNodes"
    THEN NodeList(req.result.nodes,
                  CHOOSE keys \in Orders(DOMAIN req.result.nodes) : TRUE)
    ELSE req.result.list

\* the smaller of two natural numbers
Min(a, b) == IF a <= b THEN a ELSE b

\* the entries before page `page` of `size` entries in a list of `total`: a
\* page beyond 2^24 lies past the end of every list checked
EntriesBefore(page, size, total) ==
    IF IsSmallW(page) THEN Min((SmallOf(page) - 1) * SmallOf(size), total)
    ELSE total

\* C28: for a list of any length, a positive page and any page_size, the
\* slice bounds of a paginated listing satisfy 0 <= start <= end <= total
\* and end - start <= 100, so the slicing never goes out of range, and the
\* slice of page k is the k-th run of page_size entries of the list, so the
\* pages 1, 2, ... neither overlap nor leave a gap.
C28_SliceBoundsInRange ==
    (/\ req.op \in PagingOps /\ req.client
     /\ req.paging /\ req.result.kind = "ok"
     /\ GreaterW(req.pq.Page, ZeroW))
    => LET list == Listed
           total == Len(list)
           size == SetDefaults(req.pq, IntOf(DefaultPage), IntOf(DefaultSize),
                               IntOf(MaxPageSize)).PageSize
           before == EntriesBefore(req.pq.Page, size, total)
       IN  /\ resp.kind = "http" /\ resp.status = 200
           /\ LeqW(ZeroW, resp.start) /\ LeqW(resp.start, resp.end)
           /\ LeqW(resp.end, IntOf(total))
           /\ LeqW(SubW(resp.end, resp.start), IntOf(MaxPageSize))
           /\ resp.start = IntOf(before)
           /\ resp.end = IntOf(Min(before + SmallOf(size), total))
           /\ resp.results = SubSeq(list, before + 1,
                                    Min(before + SmallOf(size), total))

(***************************************************************************)
(* Properties of the directory routes.                                     *)
(***************************************************************************)
\* C26: GET /api/v1/ldap/group/:cn returns the attributes of the group and
\* leaves the directory as it was: the group returned still exists after
\* the request.
C26_GetGroupKeepsDirectory ==
    [][\A i \in 1..MaxRequests :
         (/\ ldap'.calls[i] # ldap.calls[i]
          /\ ldap'.calls[i].op = "HandlerGetGroup"
          /\ ldap'.calls[i].method = "GET")
         => /\ ldap'.entries = ldap.entries
            /\ (ldap'.calls[i].pc = "done" /\ ldap'.calls[i].resp.status = 200)
                 => LET cn == TrimSpace(ldap'.calls[i].cn)
                        results == ldap'.calls[i].resp.results
                    IN  /\ cn \in DOMAIN ldap'.entries
                        /\ \A a \in DOMAIN results :
                              results[a] = Join(ldap'.entries[cn][a], <<",">>)]_vars

(***************************************************************************)
(* Properties of the tree assemblies under concurrent writes.              *)
(***************************************************************************)
\* the calls that assemble a tree from several queries
AssemblyOps ==
    {"GetChildNodesOfAccount", "GetAssociationChildNodesOfAccount",
     "GetAssociationTree"}

\* C22: the tree an assembly returns is the tree of one state the edge
\* relation had during the call, also when the store is written to between
\* the queries of the assembly.
C22_TreeOfOneSnapshot ==
    (asm.pc = "done" /\ req.op \in AssemblyOps /\ resp.kind = "ok")
    => \E s \in seen : resp \in ResultsOn(s, acctTable, userTable)

(***************************************************************************)
(* Properties of the read-only guard.                                      *)
(***************************************************************************)
\* C23: no call issued through the client changes the contents of the
\* store: a create, update or delete is rejected with an error, and a raw
\* statement is executed only when it is a read.
C23_StoreUnchanged ==
    [][/\ acctTable' = acctTable
       /\ (req'.op \in {"Create", "Updates", "Delete"} /\ req' # req)
            => resp'.kind = "error"]_vars

=============================================================================
